---- MODULE Spec2Model ----
(***************************************************************************)
(* Day simulation core of the backtest engine: the position and P&L        *)
(* ledger (Managers/pnl_manager.py), the exit evaluator                    *)
(* (Managers/exit_manager.py), the entry manager                           *)
(* (Managers/entry_manager/*.py), the leg registry                         *)
(* (Utilities/Order_Sequencer.py) and the minute loop of                   *)
(* DayProcessor.process_day (Utilities/Day_Processor.py).                  *)
(*                                                                         *)
(* Prices are integers in paise (1/100 rupee): every price the ledger sees *)
(* has been through round(x, 2).  Timestamps are tick numbers 1..MaxTick.  *)
(* Python's None is modelled by None (numbers) and NoneStr (strings).      *)
(***************************************************************************)
EXTENDS Integers, Sequences, FiniteSets, TLC

VARIABLES
    pc,                 \* position of process_day / which driver is running
    tick,               \* current_time of the day loop (0 before the first)
    scenario,           \* name of the leg configuration loaded for the day
    bar,                \* the option row of the current tick (present or not)
    feed,               \* the provider's rows of the ticker, feed[t] for tick t so far
    last_row,           \* latest option row at or before the current tick
    all_order_dict,     \* OrderSequenceMapper.all_order_dict (leg registry)
    main_orders,        \* keys of OrderSequenceMapper.main_orders, in order
    pnl_manager,        \* PNLManager fields
    entry_manager,      \* EntryManager fields
    TRADE_DICT,         \* DayProcessor.TRADE_DICT, one record per row
    day_breaker,        \* DayProcessor.day_breaker
    initial_entry,      \* DayProcessor.initial_entry
    stop_loss_triggers, \* local of process_day, survives the stop-loss scan
    error,              \* exception that left process_day, "" if none
    day_file_written,   \* day_file_creator has written the trade log
    obs,                \* history of the day: counters the properties read
    call                \* last ledger / evaluator call and what it returned

vars == <<pc, tick, scenario, bar, feed, last_row, all_order_dict, main_orders,
          pnl_manager, entry_manager, TRADE_DICT, day_breaker, initial_entry,
          stop_loss_triggers, error, day_file_written, obs, call>>

----------------------------------------------------------------------------
(* Bounds *)

MaxTick == 5
MaxLedgerPositions == 2
MaxLedgerTick == 1

(* Program and configuration constants *)

EntryTime == 2
ExitTime == MaxTick
EntryMode == "Close"
LotSize == 2
LotQty == 1

None == -1
NoneStr == "None"

----------------------------------------------------------------------------
(* Generic helpers *)

Min(a, b) == IF a <= b THEN a ELSE b

SeqRange(s) == {s[i] : i \in 1..Len(s)}

\* Python round(n / d) for d > 0: nearest integer, ties to the even one.
RoundDiv(n, d) ==
    LET q == n \div d
        r == n % d
    IN  IF 2 * r < d THEN q
        ELSE IF 2 * r > d THEN q + 1
        ELSE IF q % 2 = 0 THEN q ELSE q + 1

----------------------------------------------------------------------------
(* Price rows.  A row is what the price provider holds for the ticker at   *)
(* one timestamp; present = FALSE stands for "no row at this timestamp".   *)

Row(o, h, l, c) == [present |-> TRUE, Open |-> o, High |-> h, Low |-> l, Close |-> c]
NoRow == [present |-> FALSE, Open |-> 0, High |-> 0, Low |-> 0, Close |-> 0]

\* row_dict[name] for the price columns
Field(row, name) ==
    CASE name = "Open" -> row.Open
      [] name = "High" -> row.High
      [] name = "Low" -> row.Low
      [] OTHER -> row.Close

Rows == { Row(10000, 10000, 10000, 10000),
          Row(10000, 10000,  8500,  9000),
          Row(10000, 11500, 10000, 11000),
          Row(10000, 11500,  8500, 10000) }

----------------------------------------------------------------------------
(* Position (pnl_manager.py)                                               *)

\* str.upper() on the position-side strings the configuration can hold
Upper(s) == CASE s = "Buy" -> "BUY"
              [] s = "Sell" -> "SELL"
              [] OTHER -> s

\* round(x, 2) of an amount that is an exact number of paise
Round2(x) == RoundDiv(x, 1)

calculate_pnl_case_sensitive(position, ltp) ==
    IF position.position_type = "BUY"
    THEN Round2((ltp - position.entry_price) * position.quantity)
    ELSE Round2((position.entry_price - ltp) * position.quantity)

calculate_pnl(position, ltp) ==
    IF Upper(position.position_type) = "BUY"
    THEN Round2((ltp - position.entry_price) * position.quantity)
    ELSE Round2((position.entry_price - ltp) * position.quantity)

update_ltp(position, ltp) ==
    [position EXCEPT !.current_ltp = ltp,
                     !.unrealized_pnl = IF position.is_active
                                        THEN calculate_pnl(position, ltp)
                                        ELSE position.unrealized_pnl]

Position_close_position_keeps_active(position, exit_timestamp, exit_price, exit_reason) ==
    [position EXCEPT !.current_ltp = exit_price,
                     !.exit_timestamp = exit_timestamp,
                     !.exit_price = exit_price,
                     !.exit_reason = exit_reason,
                     !.realized_pnl = calculate_pnl(position, exit_price),
                     !.unrealized_pnl = 0]

Position_close_position(position, exit_timestamp, exit_price, exit_reason) ==
    [position EXCEPT !.is_active = FALSE,
                     !.current_ltp = exit_price,
                     !.exit_timestamp = exit_timestamp,
                     !.exit_price = exit_price,
                     !.exit_reason = exit_reason,
                     !.realized_pnl = calculate_pnl(position, exit_price),
                     !.unrealized_pnl = 0]

----------------------------------------------------------------------------
(* PNLManager (pnl_manager.py)                                             *)

PNLManager_init ==
    [active_positions |-> <<>>,
     closed_positions |-> <<>>,
     pnl_history |-> 0,
     total_realized_pnl |-> 0,
     total_unrealized_pnl |-> 0,
     position_counter |-> 0,
     order_book |-> <<>>]

record_order(order_book, timestamp, ticker, order_side, price, summary) ==
    Append(order_book,
           [Timestamp |-> timestamp, Ticker |-> ticker, Order_side |-> order_side,
            Price |-> IF price # None THEN Round2(price) ELSE None,
            Summary |-> summary])

\* _calculate_stop_loss: None, or the level as the fraction num / den paise
calculate_stop_loss(entry_price, leg_dict, position_type) ==
    IF ~leg_dict.stoploss_toggle THEN [none |-> TRUE, num |-> 0, den |-> 1]
    ELSE IF leg_dict.stoploss_value = 0 THEN [none |-> TRUE, num |-> 0, den |-> 1]
    ELSE IF leg_dict.stoploss_type = "Points"
         THEN IF Upper(position_type) = "BUY"
              THEN [none |-> FALSE, num |-> entry_price - leg_dict.stoploss_value, den |-> 1]
              ELSE [none |-> FALSE, num |-> entry_price + leg_dict.stoploss_value, den |-> 1]
         ELSE IF Upper(position_type) = "BUY"
              THEN [none |-> FALSE, num |-> entry_price * (100 - leg_dict.stoploss_value), den |-> 100]
              ELSE [none |-> FALSE, num |-> entry_price * (100 + leg_dict.stoploss_value), den |-> 100]

calculate_target_price(entry_price, leg_dict, position_type) ==
    IF ~leg_dict.target_toggle THEN [none |-> TRUE, num |-> 0, den |-> 1]
    ELSE IF leg_dict.target_value = 0 THEN [none |-> TRUE, num |-> 0, den |-> 1]
    ELSE IF Upper(position_type) = "BUY"
         THEN [none |-> FALSE, num |-> entry_price * (100 + leg_dict.target_value), den |-> 100]
         ELSE [none |-> FALSE, num |-> entry_price * (100 - leg_dict.target_value), den |-> 100]

RECURSIVE SumUnrealized(_)
SumUnrealized(positions) ==
    IF positions = <<>> THEN 0
    ELSE Head(positions).unrealized_pnl + SumUnrealized(Tail(positions))

update_total_unrealized_pnl(pm) ==
    [pm EXCEPT !.total_unrealized_pnl = SumUnrealized(pm.active_positions)]

\* create_position: round(None, 2) raises TypeError when no level is given
\* and the toggle is off; otherwise the position is appended and recorded.
create_position(pm, a) ==
    LET counter == pm.position_counter + 1
        sl == calculate_stop_loss(a.entry_price, a.leg_dict, a.position_type)
        tg == calculate_target_price(a.entry_price, a.leg_dict, a.position_type)
        raises == (a.sl_value = None /\ sl.none) \/ (a.target_price = None /\ tg.none)
        stop_loss == IF a.sl_value # None THEN Round2(a.sl_value) ELSE RoundDiv(sl.num, sl.den)
        target_price == IF a.target_price # None THEN Round2(a.target_price) ELSE RoundDiv(tg.num, tg.den)
        position ==
            [position_id |-> <<a.unique_leg_id, counter>>,
             leg_id |-> a.leg_id,
             unique_leg_id |-> a.unique_leg_id,
             trading_symbol |-> a.trading_symbol,
             entry_timestamp |-> a.entry_timestamp,
             entry_price |-> a.entry_price,
             quantity |-> a.quantity,
             position_type |-> a.position_type,
             leg_dict |-> a.leg_dict,
             current_ltp |-> a.entry_price,
             unrealized_pnl |-> 0,
             stop_loss |-> stop_loss,
             target_price |-> target_price,
             is_active |-> TRUE,
             exit_timestamp |-> None,
             exit_price |-> None,
             exit_reason |-> NoneStr,
             realized_pnl |-> 0,
             OHLCV_data |-> NoRow]
    IN  IF raises
        THEN [pm |-> [pm EXCEPT !.position_counter = counter], raised |-> TRUE]
        ELSE [pm |-> [pm EXCEPT !.position_counter = counter,
                                !.active_positions = Append(@, position),
                                !.order_book = record_order(@, a.entry_timestamp, a.trading_symbol,
                                                            a.position_type, a.entry_price, "entry")],
              raised |-> FALSE]

ActiveIndex(pm, position_id) ==
    IF \E i \in 1..Len(pm.active_positions) : pm.active_positions[i].position_id = position_id
    THEN CHOOSE i \in 1..Len(pm.active_positions) : pm.active_positions[i].position_id = position_id
    ELSE 0

RemoveAt(s, i) == SubSeq(s, 1, i - 1) \o SubSeq(s, i + 1, Len(s))

close_position_recounts(pm, position_id, exit_timestamp, exit_price, exit_reason) ==
    LET i == ActiveIndex(pm, position_id)
        again == {j \in 1..Len(pm.closed_positions) :
                     pm.closed_positions[j].position_id = position_id}
    IN  IF i = 0
        THEN IF again = {} THEN [pm |-> pm, closed |-> FALSE]
             ELSE [pm |-> [pm EXCEPT !.total_realized_pnl =
                               @ + pm.closed_positions[CHOOSE j \in again : TRUE].realized_pnl],
                   closed |-> FALSE]
        ELSE LET position == Position_close_position(pm.active_positions[i],
                                                     exit_timestamp, exit_price, exit_reason)
                 moved == [pm EXCEPT !.closed_positions = Append(@, position),
                                     !.active_positions = RemoveAt(@, i),
                                     !.total_realized_pnl = @ + position.realized_pnl]
             IN  [pm |-> update_total_unrealized_pnl(moved), closed |-> TRUE]

\* close_position: returns [pm, closed]; closed = FALSE is the None return
close_position(pm, position_id, exit_timestamp, exit_price, exit_reason) ==
    LET i == ActiveIndex(pm, position_id) IN
    IF i = 0 THEN [pm |-> pm, closed |-> FALSE]
    ELSE LET position == Position_close_position(pm.active_positions[i],
                                                 exit_timestamp, exit_price, exit_reason)
             moved == [pm EXCEPT !.closed_positions = Append(@, position),
                                 !.active_positions = RemoveAt(@, i),
                                 !.total_realized_pnl = @ + position.realized_pnl]
             summed == update_total_unrealized_pnl(moved)
         IN  [pm |-> [summed EXCEPT !.order_book =
                          record_order(@, exit_timestamp, position.trading_symbol,
                                       IF position.position_type = "Sell" THEN "Buy" ELSE "Sell",
                                       exit_price, position.exit_reason)],
              closed |-> TRUE]

\* update_position_ltp without the recalculation of the total
update_position_ltp_without_total(pm, position_id, ltp) ==
    LET i == ActiveIndex(pm, position_id) IN
    IF i = 0 THEN pm
    ELSE [pm EXCEPT !.active_positions[i] = update_ltp(@, ltp)]

update_position_ltp(pm, position_id, ltp) ==
    LET i == ActiveIndex(pm, position_id) IN
    IF i = 0 THEN pm
    ELSE update_total_unrealized_pnl(
             [pm EXCEPT !.active_positions[i] = update_ltp(@, ltp)])

\* symbol_to_idx of update_all_ltps: the last row of TRADE_DICT with the symbol
SymbolToIdx(trade_dict, symbol) ==
    LET hits == {i \in 1..Len(trade_dict) : trade_dict[i].TradingSymbol = symbol}
    IN  IF hits = {} THEN 0 ELSE CHOOSE i \in hits : \A j \in hits : j <= i

RECURSIVE MirrorMarks(_, _, _, _)
MirrorMarks(trade_dict, positions, k, current_timestamp) ==
    IF k > Len(positions) THEN trade_dict
    ELSE LET idx == SymbolToIdx(trade_dict, positions[k].trading_symbol)
             next == IF idx = 0 THEN trade_dict
                     ELSE [trade_dict EXCEPT ![idx].Timestamp = current_timestamp,
                                             ![idx].LTP = positions[k].current_ltp,
                                             ![idx].PnL = positions[k].unrealized_pnl]
         IN  MirrorMarks(next, positions, k + 1, current_timestamp)

\* update_all_ltps: row is the latest row at or before the timestamp;
\* frame.row(0) raises when there is none.
update_all_ltps(pm, current_timestamp, trade_dict, row) ==
    IF pm.active_positions # <<>> /\ ~row.present
    THEN [pm |-> pm, trade_dict |-> trade_dict, raised |-> TRUE]
    ELSE LET marked == [i \in 1..Len(pm.active_positions) |->
                           update_ltp([pm.active_positions[i] EXCEPT !.OHLCV_data = row],
                                      row.Close)]
         IN  [pm |-> update_total_unrealized_pnl([pm EXCEPT !.active_positions = marked]),
              trade_dict |-> MirrorMarks(trade_dict, marked, 1, current_timestamp),
              raised |-> FALSE]

----------------------------------------------------------------------------
(* Leg configurations (Utilities/Legs_generator.py, _parse_leg_file)       *)

MaxBudget == 1

\* a parsed leg with every toggle off; percentages are whole percents,
\* point values are paise
BaseLeg(unique_leg_id) ==
    [unique_leg_id |-> unique_leg_id,
     position |-> "Sell",
     ticker |-> "NIFTY_CE",
     leg_expiry_selection |-> "Weekly",
     stoploss_toggle |-> FALSE, stoploss_type |-> "Points", stoploss_value |-> 0,
     target_toggle |-> FALSE, target_value |-> 0,
     rentry_sl_toggle |-> FALSE, rentry_type_sl |-> "", total_sl_rentry |-> 0,
     rentry_tgt_toggle |-> FALSE, rentry_type_tgt |-> "", total_tgt_rentry |-> 0,
     leg_hopping_count_sl |-> 0, leg_tobe_executed_on_sl |-> "",
     leg_hopping_count_tgt |-> 0, leg_tobe_executed_on_target |-> "",
     leg_hopping_count_next_leg |-> 0, next_lazy_leg_to_be_executed |-> "",
     sm_toggle |-> FALSE, sm_percentage_direction |-> "POINTS_UP", sm_percent_value |-> 0,
     sm_tgt_sl_price |-> "Entry_price",
     range_breakout_toggle |-> FALSE, range_breakout_threshold_time |-> 0,
     range_breakout_of |-> "High", range_compare_section |-> "Close",
     rolling_straddle_toggle |-> FALSE]

WithSL(leg) == [leg EXCEPT !.stoploss_toggle = TRUE, !.stoploss_value = 1000]
WithTarget(leg) == [leg EXCEPT !.target_toggle = TRUE, !.target_value = 10]

Scenarios ==
    {"reentry_sl", "sl_and_target", "hop_shared", "hop_lazy", "momentum", "hop_missing",
     "reentry_or_hop", "hop_same_lazy", "hop_on_sl"}

\* the main legs of a scenario, in the order of the orders dict
MainOrdersOf(sc) ==
    IF sc \in {"hop_shared", "hop_missing", "hop_same_lazy", "hop_on_sl"}
    THEN <<"leg_1", "leg_2">> ELSE <<"leg_1">>

\* legid_mapping: the registry of the day, main and lazy legs merged
RegistryOf(sc) ==
    CASE sc = "reentry_sl" ->
           [l \in {"leg_1"} |->
              [WithSL(BaseLeg("leg_1")) EXCEPT !.rentry_sl_toggle = TRUE,
                                               !.rentry_type_sl = "RE ASAP",
                                               !.total_sl_rentry = MaxBudget]]
      [] sc = "sl_and_target" ->
           [l \in {"leg_1"} |->
              [WithTarget(WithSL(BaseLeg("leg_1"))) EXCEPT !.rentry_tgt_toggle = TRUE,
                                                           !.total_tgt_rentry = MaxBudget]]
      [] sc = "hop_shared" ->
           [l \in {"leg_1", "leg_2"} |->
              IF l = "leg_1"
              THEN [WithTarget(BaseLeg("leg_1")) EXCEPT !.leg_hopping_count_tgt = 1,
                                                        !.leg_tobe_executed_on_target = "leg_2"]
              ELSE [WithSL(BaseLeg("leg_2")) EXCEPT !.rentry_sl_toggle = TRUE,
                                                    !.total_sl_rentry = MaxBudget]]
      [] sc = "hop_lazy" ->
           [l \in {"leg_1", "leg_1_1"} |->
              IF l = "leg_1"
              THEN [WithSL(BaseLeg("leg_1")) EXCEPT !.leg_hopping_count_sl = 1,
                                                    !.leg_tobe_executed_on_sl = "leg_1.1"]
              ELSE [WithSL(BaseLeg("leg_1_1")) EXCEPT !.position = "Buy",
                                                      !.leg_hopping_count_next_leg = 1,
                                                      !.next_lazy_leg_to_be_executed = "leg_1"]]
      [] sc = "momentum" ->
           [l \in {"leg_1"} |->
              [WithSL(BaseLeg("leg_1")) EXCEPT !.position = "Buy",
                                               !.sm_toggle = TRUE,
                                               !.sm_percent_value = 1000]]
      [] sc = "hop_missing" ->
           [l \in {"leg_1", "leg_2"} |->
              IF l = "leg_1"
              THEN BaseLeg("leg_1")
              ELSE [WithSL(BaseLeg("leg_2")) EXCEPT !.leg_hopping_count_sl = 1,
                                                    !.leg_tobe_executed_on_sl = "leg_9"]]
      \* a stop-loss re-entry of the momentum kind and a stop-loss hop on
      \* the same leg
      [] sc = "reentry_or_hop" ->
           [l \in {"leg_1", "leg_1_1"} |->
              IF l = "leg_1"
              THEN [WithSL(BaseLeg("leg_1")) EXCEPT !.rentry_sl_toggle = TRUE,
                                                    !.rentry_type_sl = "RE MOMENTUM",
                                                    !.sm_percentage_direction = "PERCENTAGE_UP",
                                                    !.sm_percent_value = 10,
                                                    !.total_sl_rentry = MaxBudget,
                                                    !.leg_hopping_count_sl = 1,
                                                    !.leg_tobe_executed_on_sl = "leg_1.1"]
              ELSE WithSL(BaseLeg("leg_1_1"))]
      \* two main legs that hop to the same lazy leg, which hops to itself
      [] sc = "hop_same_lazy" ->
           [l \in {"leg_1", "leg_2", "leg_1_1"} |->
              IF l = "leg_1"
              THEN [WithSL(BaseLeg("leg_1")) EXCEPT !.leg_hopping_count_next_leg = 1,
                                                    !.next_lazy_leg_to_be_executed = "leg_1.1"]
              ELSE IF l = "leg_2"
              THEN [WithSL(BaseLeg("leg_2")) EXCEPT !.position = "Buy",
                                                    !.leg_hopping_count_next_leg = 1,
                                                    !.next_lazy_leg_to_be_executed = "leg_1.1"]
              ELSE [BaseLeg("leg_1_1") EXCEPT !.stoploss_toggle = TRUE,
                                              !.stoploss_value = 500,
                                              !.leg_hopping_count_next_leg = 1,
                                              !.next_lazy_leg_to_be_executed = "leg_1.1"]]
      \* a leg with a stop-loss, a target and a hop on stop-loss, next to a
      \* leg of the other side that only has a stop-loss
      [] sc = "hop_on_sl" ->
           [l \in {"leg_1", "leg_2", "leg_1_1"} |->
              IF l = "leg_1"
              THEN [WithTarget(WithSL(BaseLeg("leg_1"))) EXCEPT
                        !.leg_hopping_count_sl = 1,
                        !.leg_tobe_executed_on_sl = "leg_1.1"]
              ELSE IF l = "leg_2"
              THEN [WithSL(BaseLeg("leg_2")) EXCEPT !.position = "Buy"]
              ELSE BaseLeg("leg_1_1")]

----------------------------------------------------------------------------
(* OrderSequenceMapper (Utilities/Order_Sequencer.py)                      *)

\* str.replace(".", "_") on the leg names a configuration can hold
ReplaceDot(name) == IF name = "leg_1.1" THEN "leg_1_1" ELSE name

\* hopping_count_manager: decrements the registry's own counter
hopping_count_manager(registry, unique_leg_id, hopping_type) ==
    IF hopping_type # ""
    THEN [registry EXCEPT ![unique_leg_id][hopping_type] = @ - 1]
    ELSE registry

\* _get_order: a deep copy of the registry entry; the item assignment on a
\* missing entry (None) raises TypeError before the None check is reached
get_order(registry, unique_leg_id) ==
    IF unique_leg_id \in DOMAIN registry
    THEN [order |-> registry[unique_leg_id], raised |-> FALSE]
    ELSE [order |-> BaseLeg(unique_leg_id), raised |-> TRUE]

\* get_next_order: consumes the hop count of the exited leg in the registry,
\* then resolves the target leg; returns the target's config and id
get_next_order(registry, prev_executed_order, unique_leg_id, hopping_type, leg_to_fetch) ==
    LET counted == hopping_count_manager(registry, unique_leg_id, hopping_type)
        next_ordre_leg_id == ReplaceDot(prev_executed_order[leg_to_fetch])
        got == get_order(counted, next_ordre_leg_id)
    IN  [registry |-> counted, order |-> got.order, leg_id |-> next_ordre_leg_id,
         raised |-> got.raised]

----------------------------------------------------------------------------
(* Entry strategies (Managers/entry_manager/*.py)                          *)

StrategyRegistry == {"IMMEDIATE", "MOMENTUM", "RANGE_BREAKOUT"}

determine_strategy_type(leg_config) ==
    IF leg_config.sm_toggle THEN "MOMENTUM"
    ELSE IF leg_config.range_breakout_toggle THEN "RANGE_BREAKOUT"
    ELSE "IMMEDIATE"

\* EntryStrategy._calculate_sl_target: 0 stands for "no level"
calculate_sl_target(entry_price, leg_config, position_type) ==
    [stop_loss |->
        IF ~leg_config.stoploss_toggle THEN 0
        ELSE IF leg_config.stoploss_type = "Points"
             THEN IF position_type = "Sell"
                  THEN Round2(entry_price + leg_config.stoploss_value)
                  ELSE Round2(entry_price - leg_config.stoploss_value)
             ELSE IF position_type = "Sell"
                  THEN RoundDiv(entry_price * (100 + leg_config.stoploss_value), 100)
                  ELSE RoundDiv(entry_price * (100 - leg_config.stoploss_value), 100),
     target_price |->
        IF ~leg_config.target_toggle THEN 0
        ELSE IF position_type = "Sell"
             THEN RoundDiv(entry_price * (100 - leg_config.target_value), 100)
             ELSE RoundDiv(entry_price * (100 + leg_config.target_value), 100)]

\* momentum threshold of generate_order_spec, from the Close of the row
MomentumThreshold(leg_config, current_close) ==
    LET direction == leg_config.sm_percentage_direction
        v == leg_config.sm_percent_value
    IN  CASE direction = "PERCENTAGE_UP" -> RoundDiv(current_close * (100 + v), 100)
          [] direction = "PERCENTAGE_DOWN" -> RoundDiv(current_close * (100 - v), 100)
          [] direction = "POINTS_UP" -> Round2(current_close + v)
          [] OTHER -> Round2(current_close - v)

generate_order_spec_without_row(strategy_type, leg_id, leg_config, timestamp, row) ==
    [ok |-> /\ TRUE
            /\ strategy_type = "RANGE_BREAKOUT"
                   => timestamp < leg_config.range_breakout_threshold_time,
     order |->
        [order_id |-> <<leg_id, timestamp>>,
         leg_id |-> leg_id,
         leg_config |-> leg_config,
         timestamp_created |-> timestamp,
         strategy_type |-> strategy_type,
         strategy_data |->
            [ticker |-> leg_config.ticker,
             entry_price |-> Round2(Field(row, EntryMode)),
             close |-> Round2(row.Close),
             momentum_threshold_price |->
                 IF strategy_type = "MOMENTUM"
                 THEN MomentumThreshold(leg_config, row.Close) ELSE 0,
             direction |-> leg_config.sm_percentage_direction,
             sm_tgt_sl_price |-> leg_config.sm_tgt_sl_price,
             range_break_price |-> None,
             breakout_direction |->
                 IF leg_config.range_breakout_of = "High" THEN "ABOVE" ELSE "BELOW",
             breakout_of |-> leg_config.range_breakout_of,
             range_start |-> timestamp,
             range_end |-> leg_config.range_breakout_threshold_time,
             compare_field |-> leg_config.range_compare_section,
             range_calculated |-> FALSE]]]

\* generate_order_spec of the three strategies: None (ok = FALSE) when the
\* provider has no row for the strike at the timestamp, and for a range
\* breakout order also when the timestamp is at or past the threshold time.
\* strategy_data holds the fields of all three; a strategy reads its own.
generate_order_spec(strategy_type, leg_id, leg_config, timestamp, row) ==
    [ok |-> /\ row.present
            /\ strategy_type = "RANGE_BREAKOUT"
                   => timestamp < leg_config.range_breakout_threshold_time,
     order |->
        [order_id |-> <<leg_id, timestamp>>,
         leg_id |-> leg_id,
         leg_config |-> leg_config,
         timestamp_created |-> timestamp,
         strategy_type |-> strategy_type,
         strategy_data |->
            [ticker |-> leg_config.ticker,
             entry_price |-> Round2(Field(row, EntryMode)),
             close |-> Round2(row.Close),
             momentum_threshold_price |->
                 IF strategy_type = "MOMENTUM"
                 THEN MomentumThreshold(leg_config, row.Close) ELSE 0,
             direction |-> leg_config.sm_percentage_direction,
             sm_tgt_sl_price |-> leg_config.sm_tgt_sl_price,
             range_break_price |-> None,
             breakout_direction |->
                 IF leg_config.range_breakout_of = "High" THEN "ABOVE" ELSE "BELOW",
             breakout_of |-> leg_config.range_breakout_of,
             range_start |-> timestamp,
             range_end |-> leg_config.range_breakout_threshold_time,
             compare_field |-> leg_config.range_compare_section,
             range_calculated |-> FALSE]]]

can_execute_strict(order_spec, row) ==
    IF order_spec.strategy_type = "IMMEDIATE" THEN TRUE
    ELSE /\ row.present
         /\ IF order_spec.strategy_data.direction \in {"PERCENTAGE_UP", "POINTS_UP"}
            THEN row.Close > order_spec.strategy_data.momentum_threshold_price
            ELSE row.Close < order_spec.strategy_data.momentum_threshold_price

can_execute_next_tick(order_spec, row) ==
    IF order_spec.strategy_type = "IMMEDIATE" THEN row.Close # order_spec.strategy_data.close
    ELSE /\ row.present
         /\ IF order_spec.strategy_data.direction \in {"PERCENTAGE_UP", "POINTS_UP"}
            THEN row.Close >= order_spec.strategy_data.momentum_threshold_price
            ELSE row.Close <= order_spec.strategy_data.momentum_threshold_price

\* can_execute of the immediate and the momentum strategy: immediate orders
\* always; momentum orders when the row of the ticker exists at the
\* timestamp and its Close has crossed the threshold
can_execute(order_spec, row) ==
    IF order_spec.strategy_type = "IMMEDIATE" THEN TRUE
    ELSE /\ row.present
         /\ IF order_spec.strategy_data.direction \in {"PERCENTAGE_UP", "POINTS_UP"}
            THEN row.Close >= order_spec.strategy_data.momentum_threshold_price
            ELSE row.Close <= order_spec.strategy_data.momentum_threshold_price

SetMax(S) == CHOOSE x \in S : \A y \in S : y <= x
SetMin(S) == CHOOSE x \in S : \A y \in S : x <= y

\* the window that stops before the threshold time
range_df_half_open(data, full_day_df) ==
    {t \in 1..Len(full_day_df) :
        full_day_df[t].present /\ t >= data.range_start /\ t < data.range_end}

\* the rows of the ticker a range is taken over: both ends of the filter
\* are inclusive
range_df(data, full_day_df) ==
    {t \in 1..Len(full_day_df) :
        full_day_df[t].present /\ t >= data.range_start /\ t <= data.range_end}

\* RangeBreakoutStrategy._calculate_range: None when the window has no row
calculate_range(order_spec, full_day_df) ==
    LET data == order_spec.strategy_data
        window == range_df(data, full_day_df)
    IN  IF window = {} THEN None
        ELSE IF data.breakout_of = "High"
        THEN Round2(SetMax({full_day_df[t].High : t \in window}))
        ELSE Round2(SetMin({full_day_df[t].Low : t \in window}))

RangeBreakout_can_execute_recalculates(order_spec, timestamp, row, full_day_df) ==
    LET data == order_spec.strategy_data
        range_price == calculate_range([order_spec EXCEPT !.strategy_data.range_end = timestamp],
                                       full_day_df)
        calculated ==
            IF timestamp > data.range_end /\ range_price # None
            THEN [order_spec EXCEPT !.strategy_data.range_break_price = range_price,
                                    !.strategy_data.range_calculated = TRUE]
            ELSE order_spec
        d == calculated.strategy_data
        current_value == Field(row, d.compare_field)
    IN  [order_spec |-> calculated,
         result |-> /\ d.range_calculated
                    /\ d.range_break_price # None
                    /\ row.present
                    /\ IF d.breakout_direction = "ABOVE"
                       THEN current_value > d.range_break_price
                       ELSE current_value < d.range_break_price]

\* RangeBreakoutStrategy.can_execute: the first poll after the threshold
\* time stores the level in the order; returns the order as it is left and
\* the answer
RangeBreakout_can_execute(order_spec, timestamp, row, full_day_df) ==
    LET data == order_spec.strategy_data
        range_price == calculate_range(order_spec, full_day_df)
        calculated ==
            IF ~data.range_calculated /\ timestamp > data.range_end /\ range_price # None
            THEN [order_spec EXCEPT !.strategy_data.range_break_price = range_price,
                                    !.strategy_data.range_calculated = TRUE]
            ELSE order_spec
        d == calculated.strategy_data
        current_value == Field(row, d.compare_field)
    IN  [order_spec |-> calculated,
         result |-> /\ d.range_calculated
                    /\ d.range_break_price # None
                    /\ row.present
                    /\ IF d.breakout_direction = "ABOVE"
                       THEN current_value > d.range_break_price
                       ELSE current_value < d.range_break_price]

\* strategy.can_execute through the registry
strategy_can_execute(order_spec, timestamp, row, full_day_df) ==
    IF order_spec.strategy_type = "RANGE_BREAKOUT"
    THEN RangeBreakout_can_execute(order_spec, timestamp, row, full_day_df)
    ELSE [order_spec |-> order_spec, result |-> can_execute(order_spec, row)]

execute_swallows(order_spec, timestamp, row) ==
    LET data == order_spec.strategy_data
        leg_config == order_spec.leg_config
        position_type == leg_config.position
        immediate == order_spec.strategy_type = "IMMEDIATE"
        entry_price == IF immediate THEN data.entry_price ELSE Round2(Field(row, EntryMode))
        base == IF order_spec.strategy_type # "MOMENTUM" THEN entry_price
                ELSE IF data.sm_tgt_sl_price = "Entry_price" THEN entry_price
                ELSE IF data.sm_tgt_sl_price = "SM_price" THEN data.momentum_threshold_price
                ELSE data.entry_price
        levels == calculate_sl_target(base, leg_config, position_type)
        close == IF immediate THEN data.close ELSE Round2(row.Close)
    IN  [raised |-> FALSE,
         trade |->
            [Leg_id |-> order_spec.leg_id,
             Entry_timestamp |-> timestamp,
             Timestamp |-> timestamp,
             TradingSymbol |-> data.ticker,
             Entry_price |-> entry_price,
             LTP |-> close,
             Position_type |-> position_type,
             Stop_loss |-> levels.stop_loss,
             Target_price |-> levels.target_price,
             Lot_size |-> LotQty,
             Expiry_type |-> leg_config.leg_expiry_selection,
             PnL |-> IF position_type = "Sell"
                     THEN Round2((entry_price - close) * (LotQty * LotSize))
                     ELSE Round2((close - entry_price) * (LotQty * LotSize))]]

\* execute: the row appended to TRADE_DICT; raised when the momentum or the
\* range breakout strategy finds no row at execution
execute(order_spec, timestamp, row) ==
    LET data == order_spec.strategy_data
        leg_config == order_spec.leg_config
        position_type == leg_config.position
        immediate == order_spec.strategy_type = "IMMEDIATE"
        entry_price == IF immediate THEN data.entry_price ELSE Round2(Field(row, EntryMode))
        base == IF order_spec.strategy_type # "MOMENTUM" THEN entry_price
                ELSE IF data.sm_tgt_sl_price = "Entry_price" THEN entry_price
                ELSE IF data.sm_tgt_sl_price = "SM_price" THEN data.momentum_threshold_price
                ELSE data.entry_price
        levels == calculate_sl_target(base, leg_config, position_type)
        close == IF immediate THEN data.close ELSE Round2(row.Close)
    IN  [raised |-> ~immediate /\ ~row.present,
         trade |->
            [Leg_id |-> order_spec.leg_id,
             Entry_timestamp |-> timestamp,
             Timestamp |-> timestamp,
             TradingSymbol |-> data.ticker,
             Entry_price |-> entry_price,
             LTP |-> close,
             Position_type |-> position_type,
             Stop_loss |-> levels.stop_loss,
             Target_price |-> levels.target_price,
             Lot_size |-> LotQty,
             Expiry_type |-> leg_config.leg_expiry_selection,
             PnL |-> IF position_type = "Sell"
                     THEN Round2((entry_price - close) * (LotQty * LotSize))
                     ELSE Round2((close - entry_price) * (LotQty * LotSize))]]

----------------------------------------------------------------------------
(* EntryManager (Managers/entry_manager/entry_manager.py)                  *)

EntryManager_init == [pending_orders |-> <<>>, executed_orders |-> <<>>]

\* dict item assignment: an existing key keeps its place, a new one is last
DictSet(orders, order_spec) ==
    IF \E i \in 1..Len(orders) : orders[i].order_id = order_spec.order_id
    THEN [i \in 1..Len(orders) |->
             IF orders[i].order_id = order_spec.order_id THEN order_spec ELSE orders[i]]
    ELSE Append(orders, order_spec)

\* submit_order: returns the manager and whether an order id was returned
submit_order(em, leg_id, leg_config, timestamp, row, execution_type) ==
    LET strategy_type == IF execution_type = "" THEN determine_strategy_type(leg_config)
                         ELSE execution_type
        spec == generate_order_spec(strategy_type, leg_id, leg_config, timestamp, row)
    IN  IF strategy_type \notin StrategyRegistry \/ ~spec.ok
        THEN [em |-> em, submitted |-> FALSE]
        ELSE [em |-> [em EXCEPT !.pending_orders = DictSet(@, spec.order)],
              submitted |-> TRUE]

\* execute_pending_entries: the loop over the ids pending at the call.  What
\* can_execute stored in an order stays in it; an exception of one order is
\* logged and the order stays pending.
RECURSIVE execute_pending_loop(_, _, _, _, _, _, _)
execute_pending_loop(em, pending, k, timestamp, row, full_day_df, acc) ==
    IF k > Len(pending) THEN [em |-> em, trade_dict |-> acc.trade_dict,
                              executed_order_ids |-> acc.executed_order_ids]
    ELSE LET order_id == pending[k].order_id
             polled == strategy_can_execute(pending[k], timestamp, row, full_day_df)
             order_spec == polled.order_spec
             done == execute(order_spec, timestamp, row)
             stored == [em EXCEPT !.pending_orders =
                           [i \in 1..Len(@) |->
                               IF @[i].order_id = order_id THEN order_spec ELSE @[i]]]
         IN  IF polled.result /\ ~done.raised
             THEN execute_pending_loop(
                      [em EXCEPT !.pending_orders =
                                     SelectSeq(@, LAMBDA o : o.order_id # order_id),
                                 !.executed_orders = Append(@, order_id)],
                      pending, k + 1, timestamp, row, full_day_df,
                      [trade_dict |-> Append(acc.trade_dict, done.trade),
                       executed_order_ids |-> Append(acc.executed_order_ids, order_id)])
             ELSE execute_pending_loop(stored, pending, k + 1, timestamp, row, full_day_df, acc)

execute_pending_entries(em, timestamp, row, full_day_df, trade_dict) ==
    execute_pending_loop(em, em.pending_orders, 1, timestamp, row, full_day_df,
                         [trade_dict |-> trade_dict, executed_order_ids |-> <<>>])

\* cancel_order: True when the id was pending
cancel_order(em, order_id) ==
    IF \E i \in 1..Len(em.pending_orders) : em.pending_orders[i].order_id = order_id
    THEN [em |-> [em EXCEPT !.pending_orders =
                                SelectSeq(@, LAMBDA o : o.order_id # order_id)],
          cancelled |-> TRUE]
    ELSE [em |-> em, cancelled |-> FALSE]

----------------------------------------------------------------------------
(* Exit evaluator (Managers/exit_manager.py)                               *)

SLReason == "SL Triggered Exit"
TargetReason == "Target Triggered Exit"
ExitTimeReason == "Exit time triggered"
DayBreakerReason == "Day breaker flag triggered"

\* the Python test  needle in exit_reason  on the reasons the engine builds
Contains(exit_reason, needle) ==
    \/ needle = "SL" /\ exit_reason = SLReason
    \/ needle = "Target" /\ exit_reason = TargetReason

\* the stop-loss test without the checks of the toggle and of the value
StopLossExit_check_exit_condition_untoggled(position) ==
    LET ohlc == position.OHLCV_data
        sl_comparing_value == IF Upper(position.position_type) = "BUY"
                              THEN ohlc.Low ELSE ohlc.High
    IN  IF Upper(position.position_type) = "BUY"
        THEN IF sl_comparing_value <= position.stop_loss
             THEN [exit |-> TRUE, reason |-> SLReason]
             ELSE [exit |-> FALSE, reason |-> ""]
        ELSE IF sl_comparing_value >= position.stop_loss
             THEN [exit |-> TRUE, reason |-> SLReason]
             ELSE [exit |-> FALSE, reason |-> ""]

StopLossExit_check_exit_condition(position) ==
    LET leg_dict == position.leg_dict
        ohlc == position.OHLCV_data
        sl_comparing_value == IF Upper(position.position_type) = "BUY"
                              THEN ohlc.Low ELSE ohlc.High
    IN  IF ~leg_dict.stoploss_toggle THEN [exit |-> FALSE, reason |-> ""]
        ELSE IF position.entry_price = 0 \/ leg_dict.stoploss_value = 0
             THEN [exit |-> FALSE, reason |-> ""]
        ELSE IF Upper(position.position_type) = "BUY"
             THEN IF sl_comparing_value <= position.stop_loss
                  THEN [exit |-> TRUE, reason |-> SLReason]
                  ELSE [exit |-> FALSE, reason |-> ""]
             ELSE IF sl_comparing_value >= position.stop_loss
                  THEN [exit |-> TRUE, reason |-> SLReason]
                  ELSE [exit |-> FALSE, reason |-> ""]

TargetProfitExit_check_exit_condition(position) ==
    LET leg_dict == position.leg_dict
        ohlc == position.OHLCV_data
        target_comparing_value == IF Upper(position.position_type) = "BUY"
                                  THEN ohlc.High ELSE ohlc.Low
    IN  IF ~leg_dict.target_toggle THEN [exit |-> FALSE, reason |-> ""]
        ELSE IF position.entry_price = 0 \/ leg_dict.target_value = 0
             THEN [exit |-> FALSE, reason |-> ""]
        ELSE IF Upper(position.position_type) = "BUY"
             THEN IF target_comparing_value >= position.target_price
                  THEN [exit |-> TRUE, reason |-> TargetReason]
                  ELSE [exit |-> FALSE, reason |-> ""]
             ELSE IF target_comparing_value <= position.target_price
                  THEN [exit |-> TRUE, reason |-> TargetReason]
                  ELSE [exit |-> FALSE, reason |-> ""]

strategies == {"STOPLOSS", "TARGET", "TRAILING", "CONDITIONAL", "INDICATOR", "TIME"}

\* the strategy's own check; the legs of this model switch on stop-loss and
\* target only, and the other strategies answer (False, "") when they run
strategy_check_exit_condition(strategy_name, position) ==
    IF strategy_name = "STOPLOSS" THEN StopLossExit_check_exit_condition(position)
    ELSE IF strategy_name = "TARGET" THEN TargetProfitExit_check_exit_condition(position)
    ELSE [exit |-> FALSE, reason |-> ""]

\* check_specific_exit: the one strategy, called with three positional
\* arguments (position, current_timestamp, spot_df)
check_specific_exit(exit_type, position) ==
    IF exit_type \notin strategies THEN [exit |-> FALSE, reason |-> ""]
    ELSE strategy_check_exit_condition(exit_type, position)

priority_order == <<"STOPLOSS", "TARGET", "TRAILING", "TIME", "CONDITIONAL", "INDICATOR">>

\* positional parameters (after self) of each strategy's check_exit_condition
PositionalParams(strategy_name) ==
    IF strategy_name \in {"STOPLOSS", "TARGET"} THEN 3 ELSE 4

\* positional arguments check_exit passes: position, current_timestamp,
\* current_ltp, spot_df
CheckExitArgs == 4

\* check_exit walks the strategies in priority order and returns the first
\* match; a strategy that accepts fewer positional arguments than are passed
\* raises TypeError, which ends the call
RECURSIVE check_exit_from(_, _)
check_exit_from(position, k) ==
    IF k > Len(priority_order) THEN [raised |-> FALSE, exit |-> FALSE, reason |-> ""]
    ELSE IF CheckExitArgs > PositionalParams(priority_order[k])
         THEN [raised |-> TRUE, exit |-> FALSE, reason |-> "TypeError"]
         ELSE LET r == strategy_check_exit_condition(priority_order[k], position)
              IN  IF r.exit THEN [raised |-> FALSE, exit |-> TRUE, reason |-> r.reason]
                  ELSE check_exit_from(position, k + 1)

check_exit(position) == check_exit_from(position, 1)

----------------------------------------------------------------------------
(* DayProcessor.process_day (Utilities/Day_Processor.py): the minute loop  *)

AllLegs == {"leg_1", "leg_2", "leg_1_1", "leg_9"}

obs_init ==
    [sl_exits |-> [l \in AllLegs |-> 0],
     tgt_exits |-> [l \in AllLegs |-> 0],
     sl_reentries |-> [l \in AllLegs |-> 0],
     tgt_reentries |-> [l \in AllLegs |-> 0],
     hops |-> [l \in AllLegs |-> 0],
     submitted |-> 0]

call_init ==
    [op |-> "none", position_id |-> <<"", 0>>, returned |-> FALSE,
     raised |-> FALSE, exit |-> FALSE, reason |-> "",
     order_id |-> <<"", 0>>, execution_type |-> ""]

\* the steps of one iteration in the order the loop body states them
StepOrder ==
    <<"update", "sl_scan", "tgt_scan", "reentry", "initial_entry", "pending",
      "snapshot", "day_end">>

StepIndex(step) == CHOOSE i \in 1..Len(StepOrder) : StepOrder[i] = step

StepAfter_swapped(step) ==
    IF step = "update" THEN "tgt_scan"
    ELSE IF step = "tgt_scan" THEN "sl_scan"
    ELSE IF step = "sl_scan" THEN "reentry"
    ELSE IF step = "day_end" THEN "next"
    ELSE StepOrder[StepIndex(step) + 1]

\* the scans moved behind the step that fills the pending orders
StepAfter_scans_after_pending(step) ==
    IF step = "update" THEN "reentry"
    ELSE IF step = "pending" THEN "sl_scan"
    ELSE IF step = "tgt_scan" THEN "snapshot"
    ELSE IF step = "day_end" THEN "next"
    ELSE StepOrder[StepIndex(step) + 1]

\* the step that follows a step; after the day-end check the next timestamp
StepAfter(step) ==
    IF step = "day_end" THEN "next" ELSE StepOrder[StepIndex(step) + 1]

Init ==
    /\ pc = "next"
    /\ tick = 0
    /\ scenario \in Scenarios
    /\ bar = NoRow
    /\ feed = <<>>
    /\ last_row = NoRow
    /\ all_order_dict = RegistryOf(scenario)
    /\ main_orders = MainOrdersOf(scenario)
    /\ pnl_manager = PNLManager_init
    /\ entry_manager = EntryManager_init
    /\ TRADE_DICT = <<>>
    /\ day_breaker = FALSE
    /\ initial_entry = FALSE
    /\ stop_loss_triggers = FALSE
    /\ error = ""
    /\ day_file_written = FALSE
    /\ obs = obs_init
    /\ call = call_init

\* for timestamp in spot_df['Timestamp']: the next timestamp and the row the
\* provider holds for the ticker at it, if any
StartTick ==
    /\ pc = "next"
    /\ tick < MaxTick
    /\ tick' = tick + 1
    /\ \E b \in Rows \cup {NoRow} :
          /\ bar' = b
          /\ feed' = Append(feed, b)
          /\ last_row' = IF b.present THEN b ELSE last_row
    /\ pc' = "update"
    /\ UNCHANGED <<scenario, all_order_dict, main_orders, pnl_manager, entry_manager,
                   TRADE_DICT, day_breaker, initial_entry, stop_loss_triggers, error,
                   day_file_written, obs, call>>

\* step 1: mark to market
UpdatePositions ==
    /\ pc = "update"
    /\ LET r == update_all_ltps(pnl_manager, tick, TRADE_DICT, last_row)
           skip == pnl_manager.active_positions = <<>> /\ pnl_manager.closed_positions = <<>>
       IN  IF skip
           THEN /\ pc' = StepAfter("update")
                /\ UNCHANGED <<pnl_manager, TRADE_DICT, error>>
           ELSE IF r.raised
           THEN /\ pc' = "raised"
                /\ error' = "IndexError"
                /\ UNCHANGED <<pnl_manager, TRADE_DICT>>
           ELSE /\ pc' = StepAfter("update")
                /\ pnl_manager' = r.pm
                /\ TRADE_DICT' = r.trade_dict
                /\ UNCHANGED error
    /\ UNCHANGED <<tick, scenario, bar, feed, last_row, all_order_dict, main_orders, entry_manager,
                   day_breaker, initial_entry, stop_loss_triggers, day_file_written, obs, call>>

Bump(f, l) == [f EXCEPT ![l] = @ + 1]

\* the stop-loss loop over the positions active when the scan starts
RECURSIVE stop_loss_scan(_, _, _, _)
stop_loss_scan(st, standing_positions_list, k, current_time) ==
    IF k > Len(standing_positions_list) THEN st
    ELSE LET standing_position == standing_positions_list[k]
             r == check_specific_exit("STOPLOSS", standing_position)
             closed == close_position(st.pm, standing_position.position_id, current_time,
                                      standing_position.stop_loss, r.reason)
         IN  stop_loss_scan(
                 IF r.exit
                 THEN [st EXCEPT !.pm = closed.pm,
                                 !.stop_loss_triggers = TRUE,
                                 !.obs.sl_exits = Bump(@, standing_position.leg_id)]
                 ELSE [st EXCEPT !.stop_loss_triggers = FALSE],
                 standing_positions_list, k + 1, current_time)

\* the stop-loss loop closing at the value the bar was compared with
RECURSIVE stop_loss_scan_at_compare_value(_, _, _, _)
stop_loss_scan_at_compare_value(st, standing_positions_list, k, current_time) ==
    IF k > Len(standing_positions_list) THEN st
    ELSE LET standing_position == standing_positions_list[k]
             r == check_specific_exit("STOPLOSS", standing_position)
             sl_comparing_value == IF Upper(standing_position.position_type) = "BUY"
                                   THEN standing_position.OHLCV_data.Low
                                   ELSE standing_position.OHLCV_data.High
             closed == close_position(st.pm, standing_position.position_id, current_time,
                                      sl_comparing_value, r.reason)
         IN  stop_loss_scan_at_compare_value(
                 IF r.exit
                 THEN [st EXCEPT !.pm = closed.pm,
                                 !.stop_loss_triggers = TRUE,
                                 !.obs.sl_exits = Bump(@, standing_position.leg_id)]
                 ELSE [st EXCEPT !.stop_loss_triggers = FALSE],
                 standing_positions_list, k + 1, current_time)

StopLossScan_at_compare_value ==
    /\ pc = "sl_scan"
    /\ LET st == stop_loss_scan_at_compare_value(
                     [pm |-> pnl_manager, obs |-> obs,
                      stop_loss_triggers |-> stop_loss_triggers],
                     pnl_manager.active_positions, 1, tick)
       IN  /\ pnl_manager' = st.pm
           /\ obs' = st.obs
           /\ stop_loss_triggers' = st.stop_loss_triggers
    /\ pc' = StepAfter("sl_scan")
    /\ UNCHANGED <<tick, scenario, bar, feed, last_row, all_order_dict, main_orders, entry_manager,
                   TRADE_DICT, day_breaker, initial_entry, error, day_file_written, call>>

\* step 2: stop-loss scan
StopLossScan ==
    /\ pc = "sl_scan"
    /\ LET st == stop_loss_scan([pm |-> pnl_manager, obs |-> obs,
                                 stop_loss_triggers |-> stop_loss_triggers],
                                pnl_manager.active_positions, 1, tick)
       IN  /\ pnl_manager' = st.pm
           /\ obs' = st.obs
           /\ stop_loss_triggers' = st.stop_loss_triggers
    /\ pc' = StepAfter("sl_scan")
    /\ UNCHANGED <<tick, scenario, bar, feed, last_row, all_order_dict, main_orders, entry_manager,
                   TRADE_DICT, day_breaker, initial_entry, error, day_file_written, call>>

\* the target loop over the positions still active after the stop-loss scan
RECURSIVE target_scan(_, _, _, _)
target_scan(st, standing_positions_list, k, current_time) ==
    IF k > Len(standing_positions_list) THEN st
    ELSE LET standing_position == standing_positions_list[k]
             r == check_specific_exit("TARGET", standing_position)
             closed == close_position(st.pm, standing_position.position_id, current_time,
                                      standing_position.target_price, r.reason)
         IN  target_scan(
                 IF r.exit
                 THEN [st EXCEPT !.pm = closed.pm,
                                 !.obs.tgt_exits = Bump(@, standing_position.leg_id)]
                 ELSE st,
                 standing_positions_list, k + 1, current_time)

\* step 3: target scan
TargetScan ==
    /\ pc = "tgt_scan"
    /\ LET st == target_scan([pm |-> pnl_manager, obs |-> obs],
                             pnl_manager.active_positions, 1, tick)
       IN  /\ pnl_manager' = st.pm
           /\ obs' = st.obs
    /\ pc' = StepAfter("tgt_scan")
    /\ UNCHANGED <<tick, scenario, bar, feed, last_row, all_order_dict, main_orders, entry_manager,
                   TRADE_DICT, day_breaker, initial_entry, stop_loss_triggers, error,
                   day_file_written, call>>

\* the re-entry branch giving way to a hop rule of the exit type
reentry_counter_after_hop(closed_position) ==
    LET order_to_execute == closed_position.leg_dict
        stoploss_based_closing == Contains(closed_position.exit_reason, "SL")
        target_based_closing == Contains(closed_position.exit_reason, "Target")
        hop == \/ stoploss_based_closing /\ order_to_execute.leg_hopping_count_sl > 0
               \/ target_based_closing /\ order_to_execute.leg_hopping_count_tgt > 0
    IN  IF hop THEN ""
        ELSE IF stoploss_based_closing /\ order_to_execute.rentry_sl_toggle
        THEN IF order_to_execute.total_sl_rentry > 0 THEN "total_sl_rentry" ELSE ""
        ELSE IF target_based_closing /\ order_to_execute.rentry_tgt_toggle
        THEN IF order_to_execute.total_tgt_rentry > 0 THEN "total_tgt_rentry" ELSE ""
        ELSE ""

\* what the re-entry branch decides for one position closed at this
\* timestamp: the budget counter to consume, "" when none is consumed
reentry_counter(closed_position) ==
    LET order_to_execute == closed_position.leg_dict
        stoploss_based_closing == Contains(closed_position.exit_reason, "SL")
        target_based_closing == Contains(closed_position.exit_reason, "Target")
    IN  IF stoploss_based_closing /\ order_to_execute.rentry_sl_toggle
        THEN IF order_to_execute.total_sl_rentry > 0 THEN "total_sl_rentry" ELSE ""
        ELSE IF target_based_closing /\ order_to_execute.rentry_tgt_toggle
        THEN IF order_to_execute.total_tgt_rentry > 0 THEN "total_tgt_rentry" ELSE ""
        ELSE ""

\* the hop branch taken when no re-entry was recorded: the hop counter and
\* the key that names the target leg, "" when no hop applies.  The first
\* test reads stop_loss_triggers, the flag the stop-loss scan left behind.
hop_counter(closed_position, sl_triggers) ==
    LET order_to_execute == closed_position.leg_dict
        stoploss_based_closing == Contains(closed_position.exit_reason, "SL")
        target_based_closing == Contains(closed_position.exit_reason, "Target")
    IN  IF sl_triggers /\ order_to_execute.leg_hopping_count_sl > 0
           /\ order_to_execute.leg_tobe_executed_on_sl # ""
        THEN <<"leg_hopping_count_sl", "leg_tobe_executed_on_sl">>
        ELSE IF target_based_closing /\ order_to_execute.leg_hopping_count_tgt > 0
                /\ order_to_execute.leg_tobe_executed_on_target # ""
        THEN <<"leg_hopping_count_tgt", "leg_tobe_executed_on_target">>
        ELSE IF (stoploss_based_closing \/ target_based_closing)
                /\ order_to_execute.leg_hopping_count_next_leg > 0
                /\ order_to_execute.next_lazy_leg_to_be_executed # ""
        THEN <<"leg_hopping_count_next_leg", "next_lazy_leg_to_be_executed">>
        ELSE <<"", "">>

\* the loop over the closed positions; st.raised stops it when the hop
\* lookup raises, with everything done before the raise kept
RECURSIVE reentry_loop(_, _, _, _, _)
reentry_loop(st, k, current_time, row, sl_triggers) ==
    IF st.raised \/ k > Len(st.pm.closed_positions) THEN st
    ELSE LET closed_position == st.pm.closed_positions[k]
             leg_id == closed_position.leg_id
             counter == reentry_counter(closed_position)
             hop == hop_counter(closed_position, sl_triggers)
         IN  IF closed_position.exit_timestamp # current_time
             THEN reentry_loop(st, k + 1, current_time, row, sl_triggers)
             ELSE IF counter # ""
             THEN LET order_to_execute == [closed_position.leg_dict EXCEPT ![counter] = @ - 1]
                      sub == submit_order(st.em, leg_id, order_to_execute, current_time,
                                          row, "IMMEDIATE")
                  IN  reentry_loop(
                          [st EXCEPT !.reg = hopping_count_manager(@, leg_id, counter),
                                     !.pm.closed_positions[k].leg_dict = order_to_execute,
                                     !.em = sub.em,
                                     !.obs.submitted = IF sub.submitted THEN @ + 1 ELSE @,
                                     !.obs.sl_reentries =
                                         IF counter = "total_sl_rentry" THEN Bump(@, leg_id) ELSE @,
                                     !.obs.tgt_reentries =
                                         IF counter = "total_tgt_rentry" THEN Bump(@, leg_id) ELSE @],
                          k + 1, current_time, row, sl_triggers)
             ELSE IF hop[1] # ""
             THEN LET nxt == get_next_order(st.reg, closed_position.leg_dict, leg_id,
                                            hop[1], hop[2])
                      sub == submit_order(st.em, nxt.leg_id, nxt.order, current_time, row, "")
                  IN  IF nxt.raised
                      THEN [st EXCEPT !.reg = nxt.registry, !.raised = TRUE]
                      ELSE reentry_loop(
                               [st EXCEPT !.reg = nxt.registry,
                                          !.em = sub.em,
                                          !.obs.submitted = IF sub.submitted THEN @ + 1 ELSE @,
                                          !.obs.hops = Bump(@, leg_id)],
                               k + 1, current_time, row, sl_triggers)
             ELSE reentry_loop(st, k + 1, current_time, row, sl_triggers)

\* step 4: re-entry and hop submission for the positions closed at this
\* timestamp.  The hop lookup is outside the try block: its TypeError leaves
\* process_day.
Reentry ==
    /\ pc = "reentry"
    /\ LET st == reentry_loop([reg |-> all_order_dict, pm |-> pnl_manager,
                               em |-> entry_manager, obs |-> obs, raised |-> FALSE],
                              1, tick, bar, stop_loss_triggers)
       IN  /\ all_order_dict' = st.reg
           /\ pnl_manager' = st.pm
           /\ entry_manager' = st.em
           /\ obs' = st.obs
           /\ IF st.raised
              THEN pc' = "raised" /\ error' = "TypeError"
              ELSE pc' = StepAfter("reentry") /\ UNCHANGED error
    /\ UNCHANGED <<tick, scenario, bar, feed, last_row, main_orders, TRADE_DICT, day_breaker,
                   initial_entry, stop_loss_triggers, day_file_written, call>>

\* submit every main leg, in the order of the main-orders dict; st holds
\* the manager and the number of order ids returned so far
RECURSIVE submit_main_orders(_, _, _, _, _, _)
submit_main_orders(st, registry, legs, k, current_time, row) ==
    IF k > Len(legs) THEN st
    ELSE LET sub == submit_order(st.em, legs[k], registry[legs[k]], current_time, row, "")
         IN  submit_main_orders(
                 [em |-> sub.em,
                  submitted |-> IF sub.submitted THEN st.submitted + 1 ELSE st.submitted],
                 registry, legs, k + 1, current_time, row)

\* step 5: initial entry submission, once, at the first timestamp at or
\* after the entry time
InitialEntry ==
    /\ pc = "initial_entry"
    /\ IF tick >= EntryTime /\ ~initial_entry
       THEN LET st == submit_main_orders([em |-> entry_manager, submitted |-> obs.submitted],
                                         all_order_dict, main_orders, 1, tick, bar)
            IN  /\ entry_manager' = st.em
                /\ obs' = [obs EXCEPT !.submitted = st.submitted]
                /\ initial_entry' = TRUE
       ELSE UNCHANGED <<entry_manager, initial_entry, obs>>
    /\ pc' = StepAfter("initial_entry")
    /\ UNCHANGED <<tick, scenario, bar, feed, last_row, all_order_dict, main_orders, pnl_manager,
                   TRADE_DICT, day_breaker, stop_loss_triggers, error, day_file_written,
                   call>>

\* list.index: the first place of the id among the executed ids
IndexOf(seq, x) == CHOOSE i \in 1..Len(seq) : seq[i] = x /\ \A j \in 1..(i - 1) : seq[j] # x

\* a position for every order executed at this timestamp, from its row of
\* TRADE_DICT and the registry's entry of its leg
RECURSIVE create_executed_positions(_, _, _, _, _)
create_executed_positions(st, registry, trade_dict, executed_ids, k) ==
    IF st.raised \/ k > Len(executed_ids) THEN st
    ELSE LET position_idx == Len(trade_dict) - Len(executed_ids)
                                 + (IndexOf(executed_ids, executed_ids[k]) - 1) + 1
             trade == trade_dict[position_idx]
             leg_order == get_order(registry, trade.Leg_id)
             made == create_position(st.pm,
                        [leg_id |-> trade.Leg_id,
                         unique_leg_id |-> leg_order.order.unique_leg_id,
                         trading_symbol |-> trade.TradingSymbol,
                         entry_timestamp |-> trade.Entry_timestamp,
                         entry_price |-> trade.Entry_price,
                         quantity |-> trade.Lot_size * LotSize,
                         position_type |-> trade.Position_type,
                         leg_dict |-> leg_order.order,
                         sl_value |-> trade.Stop_loss,
                         target_price |-> trade.Target_price])
         IN  IF leg_order.raised THEN [st EXCEPT !.raised = TRUE]
             ELSE create_executed_positions(
                      [pm |-> made.pm, raised |-> made.raised],
                      registry, trade_dict, executed_ids, k + 1)

Reverse(s) == [i \in 1..Len(s) |-> s[Len(s) + 1 - i]]

\* the pending orders polled in an order that is not the dict's
ExecutePending_any_order ==
    /\ pc = "pending"
    /\ IF initial_entry /\ entry_manager.pending_orders # <<>>
       THEN \E polled \in {entry_manager.pending_orders, Reverse(entry_manager.pending_orders)} :
            LET r == execute_pending_entries([entry_manager EXCEPT !.pending_orders = polled],
                                             tick, bar, feed, TRADE_DICT)
                st == create_executed_positions([pm |-> pnl_manager, raised |-> FALSE],
                                                all_order_dict, r.trade_dict,
                                                r.executed_order_ids, 1)
            IN  /\ entry_manager' = r.em
                /\ TRADE_DICT' = r.trade_dict
                /\ pnl_manager' = st.pm
                /\ IF st.raised
                   THEN day_breaker' = TRUE /\ pc' = "returned"
                   ELSE UNCHANGED day_breaker /\ pc' = StepAfter("pending")
       ELSE /\ pc' = StepAfter("pending")
            /\ UNCHANGED <<entry_manager, TRADE_DICT, pnl_manager, day_breaker>>
    /\ UNCHANGED <<tick, scenario, bar, feed, last_row, all_order_dict, main_orders, initial_entry,
                   stop_loss_triggers, error, day_file_written, obs, call>>

\* step 6: poll the pending orders and open a position for every fill.  An
\* exception here sets the day breaker and leaves the loop at once.
ExecutePending ==
    /\ pc = "pending"
    /\ IF initial_entry /\ entry_manager.pending_orders # <<>>
       THEN LET r == execute_pending_entries(entry_manager, tick, bar, feed, TRADE_DICT)
                st == create_executed_positions([pm |-> pnl_manager, raised |-> FALSE],
                                                all_order_dict, r.trade_dict,
                                                r.executed_order_ids, 1)
            IN  /\ entry_manager' = r.em
                /\ TRADE_DICT' = r.trade_dict
                /\ pnl_manager' = st.pm
                /\ IF st.raised
                   THEN day_breaker' = TRUE /\ pc' = "returned"
                   ELSE UNCHANGED day_breaker /\ pc' = StepAfter("pending")
       ELSE /\ pc' = StepAfter("pending")
            /\ UNCHANGED <<entry_manager, TRADE_DICT, pnl_manager, day_breaker>>
    /\ UNCHANGED <<tick, scenario, bar, feed, last_row, all_order_dict, main_orders, initial_entry,
                   stop_loss_triggers, error, day_file_written, obs, call>>

\* _record_pnl_snapshot: one history row per active and per closed position
record_pnl_snapshot(pm) ==
    [pm EXCEPT !.pnl_history = @ + Len(pm.active_positions) + Len(pm.closed_positions)]

\* step 7: P&L snapshot
Snapshot ==
    /\ pc = "snapshot"
    /\ IF pnl_manager.active_positions # <<>> \/ pnl_manager.closed_positions # <<>>
       THEN pnl_manager' = record_pnl_snapshot(pnl_manager)
       ELSE UNCHANGED pnl_manager
    /\ pc' = StepAfter("snapshot")
    /\ UNCHANGED <<tick, scenario, bar, feed, last_row, all_order_dict, main_orders, entry_manager,
                   TRADE_DICT, day_breaker, initial_entry, stop_loss_triggers, error,
                   day_file_written, obs, call>>

nothing_to_execute_nopending(pm, em, entered) ==
    pm.active_positions = <<>> /\ entered

\* "exiting day early when there is nothing to execute"
nothing_to_execute(pm, em, entered) ==
    pm.active_positions = <<>> /\ entered /\ em.pending_orders = <<>>

\* the exit-time check that ends the day
exit_time_check(current_time, breaker) == current_time >= ExitTime \/ breaker

forced_close_summary(current_time) ==
    IF current_time >= ExitTime THEN ExitTimeReason ELSE DayBreakerReason

\* closing every standing position at its current LTP
RECURSIVE forced_close(_, _, _, _)
forced_close(pm, standing_positions_list, k, current_time) ==
    IF k > Len(standing_positions_list) THEN pm
    ELSE LET standing_position == standing_positions_list[k]
         IN  forced_close(
                 close_position(pm, standing_position.position_id, current_time,
                                standing_position.current_ltp,
                                forced_close_summary(current_time)).pm,
                 standing_positions_list, k + 1, current_time)

\* step 8: day-end check.  When the day ends the standing positions are
\* closed, the plot and the trade-log frame are built, and the call of
\* quick_analyze, a name the module never binds, raises NameError before
\* day_file_creator is reached.
DayEnd ==
    /\ pc = "day_end"
    /\ LET breaker == day_breaker \/ nothing_to_execute(pnl_manager, entry_manager, initial_entry)
       IN  /\ day_breaker' = breaker
           /\ IF exit_time_check(tick, breaker)
              THEN /\ pnl_manager' = forced_close(pnl_manager, pnl_manager.active_positions,
                                                  1, tick)
                   /\ error' = "NameError"
                   /\ pc' = "raised"
              ELSE /\ pc' = StepAfter("day_end")
                   /\ UNCHANGED <<pnl_manager, error>>
    /\ UNCHANGED <<tick, scenario, bar, feed, last_row, all_order_dict, main_orders, entry_manager,
                   TRADE_DICT, initial_entry, stop_loss_triggers, day_file_written, obs, call>>

Next ==
    \/ StartTick
    \/ UpdatePositions
    \/ StopLossScan
    \/ TargetScan
    \/ Reentry
    \/ InitialEntry
    \/ ExecutePending
    \/ Snapshot
    \/ DayEnd

Spec == Init /\ [][Next]_vars

\* process_day has been left: by an exception, or by a break of the loop
Terminated == pc \in {"raised", "returned"}

----------------------------------------------------------------------------
(* The ledger on its own: any sequence of calls of the PNLManager API and  *)
(* of ExitManager.check_exit on its positions.                              *)

\* the position ids a caller can name: created ones, and ones never created
LedgerIds == {<<"leg_1", n>> : n \in 0..MaxLedgerPositions}

LedgerPrices == {9000}

\* the rows the ledger is marked with: a quiet one and a wide one
LedgerRows == {Row(10000, 10000, 10000, 10000), Row(10000, 11500, 8500, 10000)}

\* the leg a ledger position is opened for: stop loss and target switched on
\* or, with toggles = FALSE, a leg with every toggle off
LedgerLeg(side, toggles) ==
    IF toggles THEN [WithTarget(WithSL(BaseLeg("leg_1"))) EXCEPT !.position = side]
    ELSE [BaseLeg("leg_1") EXCEPT !.position = side]

LedgerInit ==
    /\ pc = "ledger"
    /\ tick = 0
    /\ scenario = "ledger"
    /\ bar = NoRow
    /\ feed = <<>>
    /\ last_row = NoRow
    /\ all_order_dict = [l \in {"leg_1"} |-> LedgerLeg("Sell", TRUE)]
    /\ main_orders = <<"leg_1">>
    /\ pnl_manager = PNLManager_init
    /\ entry_manager = EntryManager_init
    /\ TRADE_DICT = <<>>
    /\ day_breaker = FALSE
    /\ initial_entry = FALSE
    /\ stop_loss_triggers = FALSE
    /\ error = ""
    /\ day_file_written = FALSE
    /\ obs = obs_init
    /\ call = call_init

LedgerUnchanged ==
    UNCHANGED <<pc, scenario, all_order_dict, main_orders, entry_manager, TRADE_DICT,
                day_breaker, initial_entry, stop_loss_triggers, error, day_file_written, obs>>

\* the ways a caller opens a position: side, leg with or without the
\* stop-loss and target toggles, levels passed in or left to the ledger
LedgerOpenings ==
    { [side |-> "Sell", toggles |-> TRUE, given |-> FALSE],
      [side |-> "Buy", toggles |-> TRUE, given |-> TRUE],
      [side |-> "Buy", toggles |-> FALSE, given |-> FALSE] }

LedgerCreatePosition ==
    /\ pnl_manager.position_counter < MaxLedgerPositions
    /\ \E o \in LedgerOpenings :
          LET leg == LedgerLeg(o.side, o.toggles)
              levels == calculate_sl_target(10000, leg, o.side)
              made == create_position(pnl_manager,
                        [leg_id |-> "leg_1",
                         unique_leg_id |-> "leg_1",
                         trading_symbol |-> "NIFTY_CE",
                         entry_timestamp |-> tick,
                         entry_price |-> 10000,
                         quantity |-> LotQty * LotSize,
                         position_type |-> o.side,
                         leg_dict |-> leg,
                         sl_value |-> IF o.given THEN levels.stop_loss ELSE None,
                         target_price |-> IF o.given THEN levels.target_price ELSE None])
          IN  /\ pnl_manager' = made.pm
              /\ call' = [call_init EXCEPT !.op = "create_position",
                                           !.position_id = <<"leg_1", made.pm.position_counter>>,
                                           !.returned = ~made.raised,
                                           !.raised = made.raised]
    /\ UNCHANGED <<tick, bar, feed, last_row>>
    /\ LedgerUnchanged

\* update_all_ltps at the next timestamp, the provider holding a row for it
LedgerUpdateAllLtps ==
    /\ tick < MaxLedgerTick
    /\ tick' = tick + 1
    /\ \E row \in LedgerRows :
          LET r == update_all_ltps(pnl_manager, tick + 1, TRADE_DICT, row)
          IN  /\ bar' = row
              /\ last_row' = row
              /\ pnl_manager' = r.pm
    /\ call' = [call_init EXCEPT !.op = "update_all_ltps", !.returned = TRUE]
    /\ UNCHANGED feed
    /\ LedgerUnchanged

LedgerUpdatePositionLtp ==
    /\ \E position_id \in LedgerIds, ltp \in LedgerPrices :
          /\ pnl_manager' = update_position_ltp(pnl_manager, position_id, ltp)
          /\ call' = [call_init EXCEPT !.op = "update_position_ltp"]
    /\ UNCHANGED <<tick, bar, feed, last_row>>
    /\ LedgerUnchanged

\* close_position on any id: active, already closed or never created
LedgerClosePosition ==
    /\ \E position_id \in LedgerIds, exit_price \in LedgerPrices :
          LET r == close_position(pnl_manager, position_id, tick, exit_price, ExitTimeReason)
          IN  /\ pnl_manager' = r.pm
              /\ call' = [call_init EXCEPT !.op = "close_position",
                                           !.position_id = position_id,
                                           !.returned = r.closed]
    /\ UNCHANGED <<tick, bar, feed, last_row>>
    /\ LedgerUnchanged

\* check_exit on an active position
LedgerCheckExit ==
    /\ \E i \in 1..Len(pnl_manager.active_positions) :
          LET r == check_exit(pnl_manager.active_positions[i])
          IN  call' = [call_init EXCEPT !.op = "check_exit",
                                       !.position_id = pnl_manager.active_positions[i].position_id,
                                       !.returned = ~r.raised,
                                       !.raised = r.raised,
                                       !.exit = r.exit,
                                       !.reason = r.reason]
    /\ UNCHANGED <<tick, bar, feed, last_row, pnl_manager>>
    /\ LedgerUnchanged

LedgerNext ==
    \/ LedgerCreatePosition
    \/ LedgerUpdateAllLtps
    \/ LedgerUpdatePositionLtp
    \/ LedgerClosePosition
    \/ LedgerCheckExit

LedgerSpec == LedgerInit /\ [][LedgerNext]_vars

----------------------------------------------------------------------------
(* The entry manager on its own: any sequence of submit_order,             *)
(* execute_pending_entries and cancel_order calls, and of direct calls of  *)
(* a strategy's execute, while the provider's rows arrive tick by tick.    *)

MaxEntryTick == 3
MaxEntryOrders == 2

\* the time of day a range breakout leg closes its window at
EntryThresholdTime == 2

\* the price data of the ticker on the days the manager is driven over,
\* tick by tick; the last row of a day stands for every later tick
EntryDays == {"quiet", "rise", "early_rise", "fall", "gap", "late"}

EntryDayRows(day) ==
    LET flat == Row(10000, 10000, 10000, 10000)
        up == Row(10000, 11500, 10000, 11000)
        down == Row(10000, 10000, 8500, 9000)
    IN  CASE day = "quiet" -> <<flat, flat, flat, up>>
          [] day = "rise" -> <<flat, flat, up, flat>>
          [] day = "early_rise" -> <<flat, up, up, flat>>
          [] day = "fall" -> <<flat, flat, down, flat>>
          [] day = "gap" -> <<flat, NoRow, NoRow, up>>
          [] OTHER -> <<NoRow, flat, down>>

EntryRowAt(day, t) ==
    LET rows == EntryDayRows(day)
    IN  IF t <= Len(rows) THEN rows[t] ELSE rows[Len(rows)]

\* the submissions a caller makes: one leg per strategy variant and flag
\* combination, the strategy left to the flags
EntrySubmissions ==
    LET leg == BaseLeg("leg_1")
        momentum == [leg EXCEPT !.sm_toggle = TRUE, !.sm_percent_value = 1000]
        range == [leg EXCEPT !.range_breakout_toggle = TRUE,
                             !.range_breakout_threshold_time = EntryThresholdTime]
    IN  { [leg_config |-> leg, execution_type |-> ""],
          [leg_config |-> momentum, execution_type |-> ""],
          [leg_config |-> [range EXCEPT !.sm_toggle = TRUE,
                                        !.sm_percentage_direction = "PERCENTAGE_DOWN",
                                        !.sm_percent_value = 10],
           execution_type |-> ""],
          [leg_config |-> range, execution_type |-> ""],
          [leg_config |-> [range EXCEPT !.range_breakout_of = "Low"], execution_type |-> ""],
          [leg_config |-> [leg EXCEPT !.rolling_straddle_toggle = TRUE],
           execution_type |-> ""] }

EntryInit ==
    /\ pc = "entry"
    /\ tick = 0
    /\ scenario \in EntryDays
    /\ bar = NoRow
    /\ feed = <<>>
    /\ last_row = NoRow
    /\ all_order_dict = [l \in {"leg_1"} |-> BaseLeg("leg_1")]
    /\ main_orders = <<"leg_1">>
    /\ pnl_manager = PNLManager_init
    /\ entry_manager = EntryManager_init
    /\ TRADE_DICT = <<>>
    /\ day_breaker = FALSE
    /\ initial_entry = FALSE
    /\ stop_loss_triggers = FALSE
    /\ error = ""
    /\ day_file_written = FALSE
    /\ obs = obs_init
    /\ call = call_init

EntryUnchanged ==
    UNCHANGED <<pc, scenario, all_order_dict, main_orders, pnl_manager, day_breaker,
                initial_entry, stop_loss_triggers, error, day_file_written>>

\* the next timestamp and the row the provider holds for the ticker at it
EntryAdvance ==
    /\ tick < MaxEntryTick
    /\ tick' = tick + 1
    /\ LET b == EntryRowAt(scenario, tick + 1)
       IN  /\ bar' = b
           /\ feed' = Append(feed, b)
           /\ last_row' = IF b.present THEN b ELSE last_row
    /\ call' = call_init
    /\ UNCHANGED <<entry_manager, TRADE_DICT, obs>>
    /\ EntryUnchanged

\* submit_order for a leg at the current timestamp, with the strategy left
\* to the flags or named by the caller
EntrySubmitOrder ==
    /\ obs.submitted < MaxEntryOrders
    /\ \E sub \in EntrySubmissions :
          LET r == submit_order(entry_manager, "leg_1", sub.leg_config, tick, bar,
                                sub.execution_type)
          IN  /\ entry_manager' = r.em
              /\ obs' = [obs EXCEPT !.submitted = IF r.submitted THEN @ + 1 ELSE @]
              /\ call' = [call_init EXCEPT !.op = "submit_order",
                                           !.order_id = <<"leg_1", tick>>,
                                           !.execution_type = sub.execution_type,
                                           !.returned = r.submitted]
    /\ UNCHANGED <<tick, bar, feed, last_row, TRADE_DICT>>
    /\ EntryUnchanged

\* execute_pending_entries at the current timestamp
EntryExecutePendingEntries ==
    /\ LET r == execute_pending_entries(entry_manager, tick, bar, feed, TRADE_DICT)
       IN  /\ entry_manager' = r.em
           /\ TRADE_DICT' = r.trade_dict
    /\ call' = [call_init EXCEPT !.op = "execute_pending_entries", !.returned = TRUE]
    /\ UNCHANGED <<tick, bar, feed, last_row, obs>>
    /\ EntryUnchanged

\* cancel_order on a pending id, or on an id that never was pending
EntryCancelOrder ==
    /\ \E order_id \in {o.order_id : o \in SeqRange(entry_manager.pending_orders)}
                          \cup {<<"leg_1", 0>>} :
          LET r == cancel_order(entry_manager, order_id)
          IN  /\ entry_manager' = r.em
              /\ UNCHANGED obs
              /\ call' = [call_init EXCEPT !.op = "cancel_order",
                                           !.order_id = order_id,
                                           !.returned = r.cancelled]
    /\ UNCHANGED <<tick, bar, feed, last_row, TRADE_DICT>>
    /\ EntryUnchanged

\* a strategy's execute called for a pending order at a timestamp the
\* provider has no row for: the exception of the missing row is logged and
\* raised again
EntryStrategyExecute ==
    /\ ~bar.present
    /\ Len(TRADE_DICT) < MaxEntryOrders
    /\ \E i \in 1..Len(entry_manager.pending_orders) :
          LET order_spec == entry_manager.pending_orders[i]
              done == execute(order_spec, tick, bar)
          IN  /\ TRADE_DICT' = IF done.raised THEN TRADE_DICT
                               ELSE Append(TRADE_DICT, done.trade)
              /\ call' = [call_init EXCEPT !.op = "execute",
                                           !.order_id = order_spec.order_id,
                                           !.returned = ~done.raised,
                                           !.raised = done.raised]
    /\ UNCHANGED <<tick, bar, feed, last_row, entry_manager, obs>>
    /\ EntryUnchanged

EntryNext ==
    \/ EntryAdvance
    \/ EntrySubmitOrder
    \/ EntryExecutePendingEntries
    \/ EntryCancelOrder
    \/ EntryStrategyExecute

EntrySpec == EntryInit /\ [][EntryNext]_vars

----------------------------------------------------------------------------
(* Properties                                                              *)

AllPositions(pm) == SeqRange(pm.active_positions) \cup SeqRange(pm.closed_positions)

ExitFieldsMatchActivity(p) ==
    /\ p.is_active <=> p.exit_timestamp = None
    /\ p.is_active => p.exit_price = None /\ p.exit_reason = NoneStr
    /\ ~p.is_active => p.exit_timestamp # None /\ p.exit_price # None /\ p.exit_reason # NoneStr

\* C1: after any ledger call every position is either active with
\* exit_timestamp, exit_price and exit_reason unset or closed with all three
\* set (is_active = (exit_timestamp is None)), the active map holds only
\* active positions and the closed list only closed ones, and a position
\* that is closed stays closed and never returns to the active map.
C1_ExitFieldsMatchActivity ==
    [][/\ \A p \in AllPositions(pnl_manager') : ExitFieldsMatchActivity(p)
       /\ \A p \in SeqRange(pnl_manager'.active_positions) : p.is_active
       /\ \A p \in SeqRange(pnl_manager'.closed_positions) : ~p.is_active
       /\ \A p \in SeqRange(pnl_manager.closed_positions) :
             /\ \E q \in SeqRange(pnl_manager'.closed_positions) :
                   q.position_id = p.position_id
             /\ \A q \in SeqRange(pnl_manager'.active_positions) :
                   q.position_id # p.position_id]_vars

C1_Witness ==
    /\ pc = "ledger"
    /\ call.op = "update_all_ltps"
    /\ pnl_manager.closed_positions # <<>>
    /\ pnl_manager.active_positions # <<>>

\* C2: close_position on an id that is not active (already closed, or never
\* created) returns None and leaves total_realized_pnl, the active map, the
\* closed list and the order book as they were.
C2_CloseInactiveIsNoOp ==
    [][(call'.op = "close_position" /\ ActiveIndex(pnl_manager, call'.position_id) = 0)
       => /\ ~call'.returned
          /\ pnl_manager'.total_realized_pnl = pnl_manager.total_realized_pnl
          /\ pnl_manager'.active_positions = pnl_manager.active_positions
          /\ pnl_manager'.closed_positions = pnl_manager.closed_positions
          /\ pnl_manager'.order_book = pnl_manager.order_book]_vars

C2_Witness ==
    /\ call.op = "close_position"
    /\ ~call.returned
    /\ pnl_manager.total_realized_pnl # 0
    /\ \E p \in SeqRange(pnl_manager.closed_positions) : p.position_id = call.position_id

\* C3: for every leg the remaining stop-loss and target re-entry counts of
\* the registry never increase and are never negative, and the same holds
\* for the counts in every position's own leg configuration.
C3_ReentryBudgetMonotone ==
    [][/\ \A l \in DOMAIN all_order_dict :
             /\ all_order_dict'[l].total_sl_rentry <= all_order_dict[l].total_sl_rentry
             /\ all_order_dict'[l].total_tgt_rentry <= all_order_dict[l].total_tgt_rentry
             /\ all_order_dict'[l].total_sl_rentry >= 0
             /\ all_order_dict'[l].total_tgt_rentry >= 0
       /\ \A q \in AllPositions(pnl_manager') :
             /\ q.leg_dict.total_sl_rentry >= 0
             /\ q.leg_dict.total_tgt_rentry >= 0
             /\ \A p \in AllPositions(pnl_manager) :
                   p.position_id = q.position_id
                   => /\ q.leg_dict.total_sl_rentry <= p.leg_dict.total_sl_rentry
                      /\ q.leg_dict.total_tgt_rentry <= p.leg_dict.total_tgt_rentry]_vars

C3_Witness ==
    \E l \in DOMAIN all_order_dict :
        /\ RegistryOf(scenario)[l].rentry_sl_toggle
        /\ all_order_dict[l].total_sl_rentry < 0

\* the re-entry step of the current timestamp has run for every exit counted
ReentrySettled == pc \notin {"tgt_scan", "reentry"} /\ error # "TypeError"

\* C4: for a leg with stop-loss re-entry on and configured budget B, the
\* number of re-entry submissions after k stop-loss exits of the leg is
\* min(k, B): one for each of the first B exits, none after; the same for
\* target exits and the target budget.
C4_ReentriesAreMinOfExitsAndBudget ==
    ReentrySettled =>
        \A l \in DOMAIN all_order_dict :
            LET configured == RegistryOf(scenario)[l]
            IN  /\ configured.rentry_sl_toggle
                   => obs.sl_reentries[l] = Min(obs.sl_exits[l], configured.total_sl_rentry)
                /\ configured.rentry_tgt_toggle
                   => obs.tgt_reentries[l] = Min(obs.tgt_exits[l], configured.total_tgt_rentry)

C4_Witness ==
    /\ ReentrySettled
    /\ \E l \in DOMAIN all_order_dict :
          /\ RegistryOf(scenario)[l].rentry_sl_toggle
          /\ obs.sl_exits[l] > RegistryOf(scenario)[l].total_sl_rentry
          /\ obs.sl_reentries[l] = obs.sl_exits[l]

\* C5: when the stop-loss and the target condition both hold for a position,
\* check_exit returns (True, stop-loss reason): the first match in the fixed
\* priority order.
C5_CheckExitReturnsStopLossFirst ==
    call.op = "check_exit" =>
        \A p \in SeqRange(pnl_manager.active_positions) :
            ( /\ p.position_id = call.position_id
              /\ StopLossExit_check_exit_condition(p).exit
              /\ TargetProfitExit_check_exit_condition(p).exit )
            => ~call.raised /\ call.exit /\ call.reason = SLReason

C5_Witness ==
    /\ call.op = "check_exit"
    /\ call.raised
    /\ \E p \in SeqRange(pnl_manager.active_positions) :
          /\ p.position_id = call.position_id
          /\ StopLossExit_check_exit_condition(p).exit
          /\ TargetProfitExit_check_exit_condition(p).exit

\* C6: every closed position's realized_pnl is (exit_price - entry_price) *
\* quantity for a Buy and (entry_price - exit_price) * quantity for a Sell,
\* whether it left by stop loss, by target or by the forced close.
C6_RealizedPnlFormula ==
    \A p \in SeqRange(pnl_manager.closed_positions) :
        p.realized_pnl = IF p.position_type = "Buy"
                         THEN (p.exit_price - p.entry_price) * p.quantity
                         ELSE (p.entry_price - p.exit_price) * p.quantity

C6_Witness ==
    /\ \E p \in SeqRange(pnl_manager.closed_positions) :
          p.position_type = "Buy" /\ p.exit_reason = SLReason /\ p.realized_pnl < 0
    /\ \E p \in SeqRange(pnl_manager.closed_positions) :
          p.position_type = "Sell" /\ p.exit_reason = ExitTimeReason /\ p.realized_pnl # 0

C7_Rank(step) ==
    CASE step = "update" -> 1
      [] step = "sl_scan" -> 2
      [] step = "tgt_scan" -> 3
      [] step = "reentry" -> 4
      [] step = "initial_entry" -> 5
      [] step = "pending" -> 6
      [] step = "snapshot" -> 7
      [] step = "day_end" -> 8
      [] OTHER -> 0

\* C7: within a timestamp the steps run in the order mark-to-market,
\* stop-loss scan, target scan, re-entry and hop submission, initial entry,
\* pending-order polling, snapshot, day-end check, each directly after the
\* one before; the timestamp advances only after the day-end check, and the
\* first step of the next timestamp is the mark-to-market update.
C7_StepsInOrder ==
    [][\/ /\ pc = "next" /\ pc' = "update" /\ tick' = tick + 1
       \/ /\ C7_Rank(pc) >= 1 /\ C7_Rank(pc') = C7_Rank(pc) + 1 /\ tick' = tick
       \/ /\ pc = "day_end" /\ pc' = "next" /\ tick' = tick
       \/ /\ C7_Rank(pc) >= 1 /\ pc' \in {"raised", "returned"} /\ tick' = tick]_vars

C7_Witness ==
    /\ pc = "day_end"
    /\ tick > EntryTime
    /\ pnl_manager.pnl_history > 0
    /\ pnl_manager.closed_positions # <<>>
    /\ pnl_manager.active_positions # <<>>
    /\ Len(entry_manager.executed_orders) >= 2

\* C8: once process_day has been left, no position is still active: every
\* position standing when the loop ended was closed by the forced close.
C8_NoActivePositionAfterDayLoop ==
    Terminated => pnl_manager.active_positions = <<>>

C8_Witness ==
    /\ Terminated
    /\ error = "TypeError"
    /\ pnl_manager.active_positions # <<>>

\* C9: when process_day stops before the exit time, the day-breaker flag is
\* set and the day's trade-log file has been written.
C9_EarlyStopHasBreakerAndLog ==
    (Terminated /\ tick < ExitTime) => (day_breaker /\ day_file_written)

C9_Witness ==
    /\ Terminated
    /\ tick < ExitTime
    /\ error = "TypeError"
    /\ ~day_breaker
    /\ ~day_file_written

----------------------------------------------------------------------------
(* The same day processed twice: Main_Engine builds a new DayProcessor,    *)
(* new managers and a new copy of the legs for a day, and the provider     *)
(* holds the same rows.                                                    *)

\* what process_day leaves behind: the trade table, the ledger with its
\* order book and P&L, the orders, the registry, how the day ended
DayOutcome ==
    [pc |-> pc, tick |-> tick, error |-> error, TRADE_DICT |-> TRADE_DICT,
     pnl_manager |-> pnl_manager, entry_manager |-> entry_manager,
     all_order_dict |-> all_order_dict, day_breaker |-> day_breaker,
     day_file_written |-> day_file_written, obs |-> obs]

\* the replayed days are quiet before the entry time, when nothing has been
\* submitted yet; the second run reads the rows the first run read
ReplayStartTick ==
    /\ StartTick
    /\ tick' < EntryTime => bar' = Row(10000, 10000, 10000, 10000)
    /\ call.op = "process_day" => tick < Len(call.feed) /\ bar' = call.feed[tick + 1]

\* the day is over: process the same day once more, from a new DayProcessor
ReplayProcessDay ==
    /\ Terminated
    /\ call.op = "none"
    /\ call' = [op |-> "process_day", feed |-> feed, outcome |-> DayOutcome]
    /\ pc' = "next"
    /\ tick' = 0
    /\ bar' = NoRow
    /\ feed' = <<>>
    /\ last_row' = NoRow
    /\ all_order_dict' = RegistryOf(scenario)
    /\ pnl_manager' = PNLManager_init
    /\ entry_manager' = EntryManager_init
    /\ TRADE_DICT' = <<>>
    /\ day_breaker' = FALSE
    /\ initial_entry' = FALSE
    /\ stop_loss_triggers' = FALSE
    /\ error' = ""
    /\ day_file_written' = FALSE
    /\ obs' = obs_init
    /\ UNCHANGED <<scenario, main_orders>>

ReplayNext ==
    \/ ReplayStartTick
    \/ UpdatePositions
    \/ StopLossScan
    \/ TargetScan
    \/ Reentry
    \/ InitialEntry
    \/ ExecutePending
    \/ Snapshot
    \/ DayEnd
    \/ ReplayProcessDay

ReplaySpec == Init /\ [][ReplayNext]_vars

----------------------------------------------------------------------------
(* The batch: Main_Engine's loop over the trading days.  Every day gets a  *)
(* new DayProcessor with new managers; the legs come from the LegsHandler, *)
(* which parses the leg files once and hands the same dicts out again.     *)
(* call holds the loop's own state: the index of the day, the dicts of the *)
(* LegsHandler, and what the previous day consumed.                        *)

MaxDays == 2

\* the numbers of timestamps of a spot frame that ends before the exit
\* time: a date without rows, and a date whose rows stop one minute after
\* the entry time
BatchSpotLengths == {0, EntryTime + 1}

\* the rows of the batch's days: quiet up to the entry time, then quiet, a
\* rise or a fall
BatchRows(t) ==
    IF t <= EntryTime THEN {Row(10000, 10000, 10000, 10000)}
    ELSE {Row(10000, 10000, 10000, 10000),
          Row(10000, 11500, 10000, 11000),
          Row(10000, 10000,  8500,  9000)}

BatchInit ==
    /\ pc = "batch"
    /\ tick = 0
    /\ scenario \in Scenarios
    /\ bar = NoRow
    /\ feed = <<>>
    /\ last_row = NoRow
    /\ all_order_dict = RegistryOf(scenario)
    /\ main_orders = MainOrdersOf(scenario)
    /\ pnl_manager = PNLManager_init
    /\ entry_manager = EntryManager_init
    /\ TRADE_DICT = <<>>
    /\ day_breaker = FALSE
    /\ initial_entry = FALSE
    /\ stop_loss_triggers = FALSE
    /\ error = ""
    /\ day_file_written = FALSE
    /\ obs = obs_init
    /\ call = [op |-> "batch", day |-> 0, orders |-> RegistryOf(scenario), prev |-> obs_init]

\* the registry of the new day keeps the registry of the day before
BatchProcessDay_shared_registry ==
    /\ pc \in {"batch", "returned"}
    /\ call.day < MaxDays
    /\ call' = [call EXCEPT !.op = "process_day", !.day = @ + 1, !.prev = obs]
    /\ pc' = "next"
    /\ tick' = 0
    /\ bar' = NoRow
    /\ feed' = <<>>
    /\ last_row' = NoRow
    /\ all_order_dict' = all_order_dict
    /\ pnl_manager' = PNLManager_init
    /\ entry_manager' = EntryManager_init
    /\ TRADE_DICT' = <<>>
    /\ day_breaker' = FALSE
    /\ initial_entry' = FALSE
    /\ stop_loss_triggers' = FALSE
    /\ error' = ""
    /\ day_file_written' = FALSE
    /\ obs' = obs_init
    /\ UNCHANGED <<scenario, main_orders>>

\* one iteration of the loop over the trading days, up to the call of
\* process_day: a new DayProcessor, the dicts of the LegsHandler handed to
\* it, and legid_mapping's copy of every leg dict as the day's registry.
\* The loop gets here at its start and after process_day has returned.
BatchProcessDay ==
    /\ pc \in {"batch", "returned"}
    /\ call.day < MaxDays
    /\ call' = [call EXCEPT !.op = "process_day", !.day = @ + 1, !.prev = obs]
    /\ pc' = "next"
    /\ tick' = 0
    /\ bar' = NoRow
    /\ feed' = <<>>
    /\ last_row' = NoRow
    /\ all_order_dict' = [l \in DOMAIN call.orders |-> call.orders[l]]
    /\ pnl_manager' = PNLManager_init
    /\ entry_manager' = EntryManager_init
    /\ TRADE_DICT' = <<>>
    /\ day_breaker' = FALSE
    /\ initial_entry' = FALSE
    /\ stop_loss_triggers' = FALSE
    /\ error' = ""
    /\ day_file_written' = FALSE
    /\ obs' = obs_init
    /\ UNCHANGED <<scenario, main_orders>>

BatchStartTick ==
    /\ StartTick
    /\ bar' \in BatchRows(tick')

\* for timestamp in spot_df['Timestamp'] has no further timestamp: the loop
\* ends and process_day returns, whatever is still open or pending
BatchSpotExhausted ==
    /\ pc = "next"
    /\ call.op = "process_day"
    /\ tick \in BatchSpotLengths
    /\ pc' = "returned"
    /\ UNCHANGED <<tick, scenario, bar, feed, last_row, all_order_dict, main_orders,
                   pnl_manager, entry_manager, TRADE_DICT, day_breaker, initial_entry,
                   stop_loss_triggers, error, day_file_written, obs, call>>

\* an exception that leaves process_day meets no handler in the loop over
\* the trading days: it ends the loop and the run
BatchAbort ==
    /\ pc = "raised"
    /\ pc' = "aborted"
    /\ UNCHANGED <<tick, scenario, bar, feed, last_row, all_order_dict, main_orders,
                   pnl_manager, entry_manager, TRADE_DICT, day_breaker, initial_entry,
                   stop_loss_triggers, error, day_file_written, obs, call>>

BatchNext ==
    \/ BatchProcessDay
    \/ BatchStartTick
    \/ UpdatePositions
    \/ StopLossScan
    \/ TargetScan
    \/ Reentry
    \/ InitialEntry
    \/ ExecutePending
    \/ Snapshot
    \/ DayEnd
    \/ BatchSpotExhausted
    \/ BatchAbort

BatchSpec == BatchInit /\ [][BatchNext]_vars

----------------------------------------------------------------------------
(* Pending orders (C11 .. C20)                                             *)

PendingIds(em) == {em.pending_orders[i].order_id : i \in 1..Len(em.pending_orders)}

\* C11: every order id that submit_order returned is pending until one
\* successful trigger or one cancel removes it; no submission drops or
\* replaces an order that is pending.  In the day loop, where nothing is
\* cancelled, every returned id is therefore pending or executed.
C11_EverySubmittedOrderPendingOrExecuted ==
    obs.submitted = Len(entry_manager.pending_orders) + Len(entry_manager.executed_orders)

\* two order ids were returned in the day loop and one order is left of them
C11_Witness ==
    /\ obs.submitted >= 2
    /\ obs.submitted > Len(entry_manager.pending_orders) + Len(entry_manager.executed_orders)

SignedNotional(row) ==
    IF row.Order_side = "Sell" THEN row.Price * (LotQty * LotSize)
    ELSE 0 - row.Price * (LotQty * LotSize)

RECURSIVE SumSignedNotional(_)
SumSignedNotional(order_book) ==
    IF order_book = <<>> THEN 0
    ELSE SignedNotional(Head(order_book)) + SumSignedNotional(Tail(order_book))

RECURSIVE SumRealized(_)
SumRealized(positions) ==
    IF positions = <<>> THEN 0
    ELSE Head(positions).realized_pnl + SumRealized(Tail(positions))

\* the rows of a closed position: its entry on its own side, its exit on the
\* opposite side
HasEntryAndExitRow(order_book, p) ==
    /\ \E i \in 1..Len(order_book) :
          /\ order_book[i].Summary = "entry"
          /\ order_book[i].Timestamp = p.entry_timestamp
          /\ order_book[i].Order_side = p.position_type
          /\ order_book[i].Price = p.entry_price
    /\ \E i \in 1..Len(order_book) :
          /\ order_book[i].Summary = p.exit_reason
          /\ order_book[i].Timestamp = p.exit_timestamp
          /\ order_book[i].Order_side # p.position_type
          /\ order_book[i].Price = p.exit_price

RoundTrip(pm) ==
    /\ SumSignedNotional(pm.order_book) = SumRealized(pm.closed_positions)
    /\ Len(pm.order_book) = 2 * Len(pm.closed_positions)
    /\ \A i \in 1..Len(pm.closed_positions) :
          HasEntryAndExitRow(pm.order_book, pm.closed_positions[i])

\* C13: at the end of a day the signed notional of the ledger's order book
\* rows (entries against exits) adds up to the realized P&L of the closed
\* positions, and the order book holds one entry row and one exit row, on
\* the opposite side, for every closed position and no other row.
C13_OrderBookRoundTrip ==
    Terminated => RoundTrip(pnl_manager)

\* a day is over with a position that has its entry row and no exit row
C13_Witness ==
    /\ Terminated
    /\ pnl_manager.closed_positions # <<>>
    /\ pnl_manager.active_positions # <<>>
    /\ SumSignedNotional(pnl_manager.order_book) # SumRealized(pnl_manager.closed_positions)

\* the relation of C13 on the days that end with every position closed
C13_RoundTripWhenAllClosed ==
    (Terminated /\ pnl_manager.active_positions = <<>>) => RoundTrip(pnl_manager)

\* the strategy the stated priority gives a leg
StrategyByPriority(leg_config) ==
    IF leg_config.rolling_straddle_toggle THEN "ROLLING_STRADDLE"
    ELSE IF leg_config.sm_toggle THEN "MOMENTUM"
    ELSE IF leg_config.range_breakout_toggle THEN "RANGE_BREAKOUT"
    ELSE "IMMEDIATE"

\* the order a submit_order call has just stored
SubmittedOrders ==
    {o \in SeqRange(entry_manager.pending_orders) :
        call.op = "submit_order" /\ call.returned /\ o.order_id = call.order_id}

\* C14: the strategy of an order submitted with the choice left to the
\* leg's flags is the first set flag in the priority rolling-straddle >
\* momentum > range-breakout, and immediate when no flag is set.
C14_StrategyChosenByPriority ==
    \A o \in SubmittedOrders :
        call.execution_type = "" => o.strategy_type = StrategyByPriority(o.leg_config)

\* a leg with the rolling straddle flag was submitted and is an immediate order
C14_Witness ==
    \E o \in SubmittedOrders :
        /\ call.execution_type = ""
        /\ o.leg_config.rolling_straddle_toggle
        /\ o.strategy_type = "IMMEDIATE"

\* the part of the priority that the manager of the day loop knows:
\* momentum before range breakout, immediate without a flag
C14_PriorityWithoutRollingStraddle ==
    \A o \in SubmittedOrders :
        (call.execution_type = "" /\ ~o.leg_config.rolling_straddle_toggle)
            => o.strategy_type = StrategyByPriority(o.leg_config)

\* the current price of the ticker has crossed the threshold of a momentum
\* order: at or above it for an up direction, at or below it for a down one
Crossed(o, row) ==
    /\ row.present
    /\ IF o.strategy_data.direction \in {"PERCENTAGE_UP", "POINTS_UP"}
       THEN row.Close >= o.strategy_data.momentum_threshold_price
       ELSE row.Close <= o.strategy_data.momentum_threshold_price

\* the rows a poll has added to the trade table for an order: the k-th id
\* the poll has executed belongs to the k-th row it has appended
RowsFilledInStep(o) ==
    {TRADE_DICT'[Len(TRADE_DICT) + k] :
        k \in {n \in 1..(Len(TRADE_DICT') - Len(TRADE_DICT)) :
                  /\ Len(entry_manager.executed_orders) + n
                         <= Len(entry_manager'.executed_orders)
                  /\ entry_manager'.executed_orders[Len(entry_manager.executed_orders) + n]
                         = o.order_id}}

\* the poll of this step has filled the order: its id went from pending to
\* executed and it has one new row in the trade table, of this timestamp
FilledInStep(o) ==
    /\ o.order_id \notin PendingIds(entry_manager')
    /\ Cardinality(RowsFilledInStep(o)) = 1
    /\ \A row \in RowsFilledInStep(o) :
          row.Leg_id = o.leg_id /\ row.Entry_timestamp = tick

\* the poll of this step has left the order pending
StillPendingAfterStep(o) ==
    /\ o.order_id \in PendingIds(entry_manager')
    /\ RowsFilledInStep(o) = {}

\* C15: a poll leaves a momentum order pending when the Close of the tick
\* has not crossed its threshold and fills it when it has (>= for an up
\* direction, <= for a down direction), so the order is filled at the first
\* polled tick that crosses; the fill price is the EntryMode field of that
\* tick's row.
C15_MomentumFillsAtFirstCrossing ==
    [][call'.op = "execute_pending_entries" =>
          \A o \in SeqRange(entry_manager.pending_orders) :
              o.strategy_type = "MOMENTUM" =>
                  IF Crossed(o, bar)
                  THEN /\ FilledInStep(o)
                       /\ \A row \in RowsFilledInStep(o) :
                             row.Entry_price = Round2(Field(bar, EntryMode))
                  ELSE StillPendingAfterStep(o)]_vars

\* the order submitted at the threshold time, when no range breakout order
\* is accepted, was the last one filled, by a poll of a later tick and at
\* that tick's price, which is not the price at its submission
C15_Witness ==
    /\ call.op = "execute_pending_entries"
    /\ tick > EntryThresholdTime
    /\ entry_manager.executed_orders # <<>>
    /\ entry_manager.executed_orders[Len(entry_manager.executed_orders)]
           = <<"leg_1", EntryThresholdTime>>
    /\ TRADE_DICT # <<>>
    /\ TRADE_DICT[Len(TRADE_DICT)].Entry_timestamp = tick
    /\ TRADE_DICT[Len(TRADE_DICT)].Entry_price = Round2(Field(bar, EntryMode))
    /\ Field(bar, EntryMode) # Field(feed[EntryThresholdTime], EntryMode)

\* the order of this id as the next state holds it pending
PendingAfterStep(order_id) ==
    {o \in SeqRange(entry_manager'.pending_orders) : o.order_id = order_id}

\* the breakout level a poll of a range breakout order works with: the level
\* the order holds, or the level of its window when it holds none yet
LevelAtPoll(o) ==
    IF o.strategy_data.range_calculated THEN o.strategy_data.range_break_price
    ELSE IF tick > o.strategy_data.range_end THEN calculate_range(o, feed)
    ELSE None

\* the compare field of the row is strictly beyond the level, above it for a
\* breakout of the High and below it for a breakout of the Low
Beyond(o, row, level) ==
    /\ row.present
    /\ level # None
    /\ IF o.strategy_data.breakout_of = "High"
       THEN Field(row, o.strategy_data.compare_field) > level
       ELSE Field(row, o.strategy_data.compare_field) < level

\* C16: a poll at or before the threshold time leaves a range breakout order
\* pending and without a level; the first poll after the threshold time
\* stores the level in the order and no later step changes it; a poll after
\* the threshold time fills the order when the compare field of the tick's
\* row is strictly beyond the level and leaves it pending otherwise.
C16_RangeBreakoutWaitsCachesAndFires ==
    [][\A o \in SeqRange(entry_manager.pending_orders) :
          o.strategy_type = "RANGE_BREAKOUT" =>
              /\ o.strategy_data.range_calculated =>
                    \A n \in PendingAfterStep(o.order_id) :
                        /\ n.strategy_data.range_calculated
                        /\ n.strategy_data.range_break_price = o.strategy_data.range_break_price
              /\ call'.op = "execute_pending_entries" =>
                    IF Beyond(o, bar, LevelAtPoll(o))
                    THEN tick > o.strategy_data.range_end /\ FilledInStep(o)
                    ELSE /\ StillPendingAfterStep(o)
                         /\ \A n \in PendingAfterStep(o.order_id) :
                               /\ n.strategy_data.range_break_price = LevelAtPoll(o)
                               /\ n.strategy_data.range_calculated = (LevelAtPoll(o) # None)]_vars

\* a range breakout order holds its level, was left pending by the poll of a
\* tick that is not beyond it, and the tick is later than the threshold time
C16_Witness ==
    /\ call.op = "execute_pending_entries"
    /\ \E o \in SeqRange(entry_manager.pending_orders) :
          /\ o.strategy_type = "RANGE_BREAKOUT"
          /\ o.strategy_data.range_calculated
          /\ tick > o.strategy_data.range_end
          /\ bar.present
          /\ Field(bar, o.strategy_data.compare_field) = o.strategy_data.range_break_price

\* the level of the window [submission time, threshold time)
HalfOpenLevel(o) ==
    LET window == range_df_half_open(o.strategy_data, feed)
    IN  IF window = {} THEN None
        ELSE IF o.strategy_data.breakout_of = "High"
        THEN Round2(SetMax({feed[t].High : t \in window}))
        ELSE Round2(SetMin({feed[t].Low : t \in window}))

\* C17: the breakout level a range breakout order holds is the maximum High
\* (breakout of the High) or the minimum Low (breakout of the Low) of the
\* rows from its submission time up to, and not including, its threshold
\* time.
C17_LevelOverHalfOpenWindow ==
    \A o \in SeqRange(entry_manager.pending_orders) :
        (o.strategy_type = "RANGE_BREAKOUT" /\ o.strategy_data.range_calculated)
            => o.strategy_data.range_break_price = HalfOpenLevel(o)

\* an order holds a level that only the row of the threshold time gives
C17_Witness ==
    \E o \in SeqRange(entry_manager.pending_orders) :
        /\ o.strategy_type = "RANGE_BREAKOUT"
        /\ o.strategy_data.range_calculated
        /\ feed[o.strategy_data.range_end].present
        /\ o.strategy_data.range_break_price # HalfOpenLevel(o)
        /\ o.strategy_data.range_break_price
               \in {feed[o.strategy_data.range_end].High, feed[o.strategy_data.range_end].Low}

\* the level over the window the code filters: both ends included
C17_LevelOverClosedWindow ==
    \A o \in SeqRange(entry_manager.pending_orders) :
        (o.strategy_type = "RANGE_BREAKOUT" /\ o.strategy_data.range_calculated)
            => o.strategy_data.range_break_price = calculate_range(o, feed)

\* C18: an immediate order is pending only between its submission and the
\* pending-order step of the same tick, and that step fills it, at the
\* EntryMode field of the row fetched at its submission.
C18_ImmediateFilledInSameTick ==
    /\ [](\A o \in SeqRange(entry_manager.pending_orders) :
             o.strategy_type = "IMMEDIATE" =>
                 o.timestamp_created = tick /\ pc \in {"initial_entry", "pending"})
    /\ [][pc = "pending" =>
             \A o \in SeqRange(entry_manager.pending_orders) :
                 o.strategy_type = "IMMEDIATE" =>
                     /\ FilledInStep(o)
                     /\ feed[o.timestamp_created].present
                     /\ \A row \in RowsFilledInStep(o) :
                           /\ row.Entry_price = o.strategy_data.entry_price
                           /\ row.Entry_price
                                  = Round2(Field(feed[o.timestamp_created], EntryMode))]_vars

\* the pending-order step has filled the initial entry and, at a later tick,
\* a re-entry
C18_Witness ==
    /\ pc = "snapshot"
    /\ entry_manager.pending_orders = <<>>
    /\ Len(entry_manager.executed_orders) >= 2
    /\ entry_manager.executed_orders[Len(entry_manager.executed_orders)][2] = tick
    /\ entry_manager.executed_orders[1][2] < tick

\* C19: submit_order at a timestamp the provider has no row for returns no
\* order id and changes nothing: the pending orders, the executed orders,
\* the trade table and the ledger are as before, whichever strategy the
\* leg's flags select.
C19_NoRowNoOrder ==
    [][(call'.op = "submit_order" /\ ~bar.present) =>
          /\ ~call'.returned
          /\ entry_manager' = entry_manager
          /\ TRADE_DICT' = TRADE_DICT
          /\ pnl_manager' = pnl_manager]_vars

\* a submission has returned nothing at a tick without a row, with an order
\* of an earlier tick pending
C19_Witness ==
    /\ call.op = "submit_order"
    /\ ~call.returned
    /\ tick > 0
    /\ ~bar.present
    /\ entry_manager.pending_orders # <<>>

C21_DoubleSubmitIsNoOp ==
    [][(/\ call'.op = "submit_order"
        /\ \E o \in SeqRange(entry_manager.pending_orders) : o.leg_id = call'.order_id[1])
          => entry_manager'.pending_orders = entry_manager.pending_orders]_vars

\* two orders of one leg are pending together, the second submitted while
\* the first was pending
C21_Witness ==
    /\ call.op = "submit_order"
    /\ call.returned
    /\ \E i, j \in 1..Len(entry_manager.pending_orders) :
          /\ i < j
          /\ entry_manager.pending_orders[i].leg_id = entry_manager.pending_orders[j].leg_id
          /\ entry_manager.pending_orders[j].order_id = call.order_id

\* the position was closed at this timestamp, no re-entry is taken for it,
\* a hop rule applies and the leg the rule names is not in the registry
HopTargetMissing(p) ==
    LET hop == hop_counter(p, stop_loss_triggers)
    IN  /\ p.exit_timestamp = tick
        /\ reentry_counter(p) = ""
        /\ hop[1] # ""
        /\ ReplaceDot(p.leg_dict[hop[2]]) \notin DOMAIN all_order_dict

\* C22: a hop to a leg id that is not in the day's registry is a no-op: the
\* re-entry step submits no order for it and the loop goes on to its next
\* step; nothing is raised out of the day loop.
C22_MissingHopTargetIsNoOp ==
    [][(/\ pc = "reentry"
        /\ \E p \in SeqRange(pnl_manager.closed_positions) : HopTargetMissing(p))
          => /\ pc' = StepAfter("reentry")
             /\ error' = error]_vars

\* the day was left by the TypeError of the lookup of a missing hop target
C22_Witness ==
    /\ pc = "raised"
    /\ error = "TypeError"
    /\ \E p \in SeqRange(pnl_manager.closed_positions) :
          /\ p.exit_timestamp = tick
          /\ p.leg_dict.leg_tobe_executed_on_sl = "leg_9"
          /\ "leg_9" \notin DOMAIN all_order_dict

----------------------------------------------------------------------------
(* Errors, re-entries and hops (C21 .. C30)                                *)

\* C23: when a day of the batch fails and days remain, the next thing the
\* batch does is to start the next day.
C23_FailedDayDoesNotStopBatch ==
    [][(pc = "raised" /\ call.day < MaxDays)
          => (pc' = "next" /\ call'.day = call.day + 1)]_vars

\* the run has ended on the error of a day that was not the last one
C23_Witness ==
    /\ pc = "aborted"
    /\ error # ""
    /\ call.day < MaxDays

\* a re-entry rule of the exit type of the closed position is enabled and
\* has budget left
ReentryRuleApplies(p) ==
    \/ /\ p.exit_reason = SLReason
       /\ p.leg_dict.rentry_sl_toggle
       /\ p.leg_dict.total_sl_rentry > 0
    \/ /\ p.exit_reason = TargetReason
       /\ p.leg_dict.rentry_tgt_toggle
       /\ p.leg_dict.total_tgt_rentry > 0

\* a hop rule could apply to the exit of the closed position
HopRuleApplies(p) ==
    \/ /\ p.exit_reason = SLReason
       /\ p.leg_dict.leg_hopping_count_sl > 0
       /\ p.leg_dict.leg_tobe_executed_on_sl # ""
    \/ /\ p.exit_reason = TargetReason
       /\ p.leg_dict.leg_hopping_count_tgt > 0
       /\ p.leg_dict.leg_tobe_executed_on_target # ""
    \/ /\ p.exit_reason \in {SLReason, TargetReason}
       /\ p.leg_dict.leg_hopping_count_next_leg > 0
       /\ p.leg_dict.next_lazy_leg_to_be_executed # ""

HopCounts(leg_dict) ==
    <<leg_dict.leg_hopping_count_sl, leg_dict.leg_hopping_count_tgt,
      leg_dict.leg_hopping_count_next_leg>>

\* C24: when a re-entry rule and a hop rule both apply to an exit, the
\* re-entry is taken and no hop: the same leg is resubmitted with its own
\* config, the re-entry is counted, no hop is counted and no hop count of
\* the registry changes.
C24_ReentryBeforeHop ==
    [][pc = "reentry" =>
          \A p \in SeqRange(pnl_manager.closed_positions) :
              (p.exit_timestamp = tick /\ ReentryRuleApplies(p) /\ HopRuleApplies(p)) =>
                  /\ obs'.hops[p.leg_id] = obs.hops[p.leg_id]
                  /\ obs'.sl_reentries[p.leg_id] + obs'.tgt_reentries[p.leg_id]
                         = obs.sl_reentries[p.leg_id] + obs.tgt_reentries[p.leg_id] + 1
                  /\ \A l \in DOMAIN all_order_dict :
                         HopCounts(all_order_dict'[l]) = HopCounts(all_order_dict[l])
                  /\ bar.present =>
                         \E o \in SeqRange(entry_manager'.pending_orders) :
                             /\ o.order_id = <<p.leg_id, tick>>
                             /\ o.leg_config.unique_leg_id = p.leg_dict.unique_leg_id]_vars

\* a re-entry was taken for a position whose leg also has a hop rule for
\* the exit, and the hop has not been taken
C24_Witness ==
    /\ pc = "initial_entry"
    /\ \E p \in SeqRange(pnl_manager.closed_positions) :
          /\ p.exit_timestamp = tick
          /\ HopRuleApplies(p)
          /\ obs.sl_reentries[p.leg_id] = 1
          /\ obs.hops[p.leg_id] = 0
          /\ \E o \in SeqRange(entry_manager.pending_orders) : o.order_id = <<p.leg_id, tick>>

\* the leg a hop from the closed position goes to, "" when no hop is taken
HopTarget(p) ==
    LET hop == hop_counter(p, stop_loss_triggers)
    IN  IF p.exit_timestamp = tick /\ reentry_counter(p) = "" /\ hop[1] # ""
        THEN ReplaceDot(p.leg_dict[hop[2]]) ELSE ""

\* C25: on a hop the order of the target leg is submitted under the leg id
\* of the exited leg: the pending order carries the exited leg's leg_id and
\* the config found under the target's id.
C25_HopKeepsOriginalLegId ==
    [][pc = "reentry" =>
          \A p \in SeqRange(pnl_manager.closed_positions) :
              (HopTarget(p) \in DOMAIN all_order_dict /\ bar.present) =>
                  \E o \in SeqRange(entry_manager'.pending_orders) :
                      /\ o.timestamp_created = tick
                      /\ o.leg_id = p.leg_id
                      /\ o.leg_config.unique_leg_id = HopTarget(p)]_vars

\* a hop was taken at this timestamp and the position opened for it carries
\* the leg id of the target leg, which is not the exited leg's
C25_Witness ==
    /\ pc = "snapshot"
    /\ \E p \in SeqRange(pnl_manager.closed_positions) :
          /\ p.exit_timestamp = tick
          /\ obs.hops[p.leg_id] > 0
          /\ \E a \in SeqRange(pnl_manager.active_positions) :
                /\ a.entry_timestamp = tick
                /\ a.leg_id # p.leg_id
                /\ a.leg_id = HopTarget(p)
                /\ \E i \in 1..Len(TRADE_DICT) :
                      TRADE_DICT[i].Leg_id = a.leg_id /\ TRADE_DICT[i].Entry_timestamp = tick

\* the hops a leg's configuration allows: a leg of the scenarios has one
\* hop rule at most, so the sum is the count of its rule
ConfiguredHops(l) ==
    LET leg == RegistryOf(scenario)[l]
    IN  leg.leg_hopping_count_sl + leg.leg_hopping_count_tgt + leg.leg_hopping_count_next_leg

\* C26: no hop count of the registry is negative, and the hops taken from a
\* leg never exceed the count its rule was configured with.
C26_HopCountsGateHops ==
    \A l \in DOMAIN all_order_dict :
        /\ all_order_dict[l].leg_hopping_count_sl >= 0
        /\ all_order_dict[l].leg_hopping_count_tgt >= 0
        /\ all_order_dict[l].leg_hopping_count_next_leg >= 0
        /\ obs.hops[l] <= ConfiguredHops(l)

\* more hops were taken from a leg than its count allows, and the count of
\* the registry has gone below zero
C26_Witness ==
    \E l \in DOMAIN all_order_dict :
        /\ ConfiguredHops(l) = 1
        /\ obs.hops[l] = 2
        /\ all_order_dict[l].leg_hopping_count_next_leg = -1

\* the re-entry mode configured for the exit type of the closed position,
\* "" when the exit has no enabled re-entry rule
ReentryMode(p) ==
    IF p.exit_reason = SLReason /\ p.leg_dict.rentry_sl_toggle
    THEN p.leg_dict.rentry_type_sl
    ELSE IF p.exit_reason = TargetReason /\ p.leg_dict.rentry_tgt_toggle
    THEN p.leg_dict.rentry_type_tgt
    ELSE ""

\* the leg of the closed position was filled again at the exit timestamp
RefilledAtExit(p) ==
    \E i \in 1..Len(TRADE_DICT) :
        /\ TRADE_DICT[i].Leg_id = p.leg_id
        /\ TRADE_DICT[i].Entry_timestamp = p.exit_timestamp

\* C27: with "RE ASAP" the leg is resubmitted at the exit timestamp as an
\* order that fills at once; with "RE MOMENTUM" the leg is not filled again
\* at the exit timestamp, where the price has not moved since the exit.
C27_ReentryModeDecidesWhen ==
    /\ [](\A p \in SeqRange(pnl_manager.closed_positions) :
              ReentryMode(p) = "RE MOMENTUM" => ~RefilledAtExit(p))
    /\ [][pc = "reentry" =>
             \A p \in SeqRange(pnl_manager.closed_positions) :
                 (/\ p.exit_timestamp = tick
                  /\ ReentryMode(p) = "RE ASAP"
                  /\ ReentryRuleApplies(p)
                  /\ bar.present) =>
                     \E o \in SeqRange(entry_manager'.pending_orders) :
                         /\ o.order_id = <<p.leg_id, tick>>
                         /\ o.strategy_type = "IMMEDIATE"]_vars

\* a leg with the "RE MOMENTUM" mode was stopped out and filled again at
\* the timestamp of the exit
C27_Witness ==
    \E p \in SeqRange(pnl_manager.closed_positions) :
        /\ ReentryMode(p) = "RE MOMENTUM"
        /\ p.exit_timestamp = tick
        /\ RefilledAtExit(p)
        /\ obs.sl_reentries[p.leg_id] > 0

\* no exit strategy is switched on for the leg
NoExitToggle(leg_dict) == ~leg_dict.stoploss_toggle /\ ~leg_dict.target_toggle

\* C28: an active position of a leg without exit toggles leaves the active
\* positions only in the day-end step, when the exit time is reached or the
\* day breaker is set, and it is closed with the forced-close reason.
C28_NoToggleOnlyForcedClose ==
    [][\A p \in SeqRange(pnl_manager.active_positions) :
          (/\ NoExitToggle(p.leg_dict)
           /\ \A a \in SeqRange(pnl_manager'.active_positions) :
                  a.position_id # p.position_id) =>
              /\ pc = "day_end"
              /\ tick >= ExitTime \/ day_breaker'
              /\ \E c \in SeqRange(pnl_manager'.closed_positions) :
                     /\ c.position_id = p.position_id
                     /\ c.exit_reason \in {ExitTimeReason, DayBreakerReason}
                     /\ c.exit_timestamp = tick]_vars

\* a position of a leg without exit toggles has lived through rows that
\* stop out the other leg's kind of position and was closed at the exit time
C28_Witness ==
    \E c \in SeqRange(pnl_manager.closed_positions) :
        /\ NoExitToggle(c.leg_dict)
        /\ c.exit_reason = ExitTimeReason
        /\ c.exit_timestamp = ExitTime
        /\ c.entry_timestamp < ExitTime
        /\ \E t \in (c.entry_timestamp + 1)..Len(feed) :
               feed[t].present /\ feed[t].Low < c.entry_price

\* the re-entry budgets and the hop counts of a leg
Budgets(leg_dict) ==
    <<leg_dict.total_sl_rentry, leg_dict.total_tgt_rentry, leg_dict.leg_hopping_count_sl,
      leg_dict.leg_hopping_count_tgt, leg_dict.leg_hopping_count_next_leg>>

\* process_day has been called and its loop has read no timestamp yet
DayStart == pc = "next" /\ tick = 0 /\ call.op = "process_day"

\* C29: at the start of every day of the batch the ledger holds no
\* position, no order is pending or executed, the trade table is empty, and
\* every leg of the registry has its configured re-entry budgets and hop
\* counts.
C29_DayStartsClean ==
    DayStart =>
        /\ pnl_manager = PNLManager_init
        /\ entry_manager = EntryManager_init
        /\ TRADE_DICT = <<>>
        /\ ~day_breaker
        /\ ~initial_entry
        /\ DOMAIN all_order_dict = DOMAIN RegistryOf(scenario)
        /\ \A l \in DOMAIN all_order_dict :
               Budgets(all_order_dict[l]) = Budgets(RegistryOf(scenario)[l])

\* a day starts after a day that consumed a re-entry or a hop
C29_Witness ==
    /\ DayStart
    /\ call.day >= 2
    /\ \E l \in DOMAIN all_order_dict :
          call.prev.sl_reentries[l] + call.prev.tgt_reentries[l] + call.prev.hops[l] > 0

\* the value of the position's bar that the stop-loss test reads
SLCompareValue(p) ==
    IF Upper(p.position_type) = "BUY" THEN p.OHLCV_data.Low ELSE p.OHLCV_data.High

\* the stop-loss test of a position whose leg switches the stop-loss on
SLTriggers(p) ==
    /\ p.leg_dict.stoploss_toggle
    /\ p.entry_price # 0
    /\ p.leg_dict.stoploss_value # 0
    /\ IF Upper(p.position_type) = "BUY"
       THEN SLCompareValue(p) <= p.stop_loss
       ELSE SLCompareValue(p) >= p.stop_loss

\* the position left the active positions in this step
LeftActive(p) ==
    \A a \in SeqRange(pnl_manager'.active_positions) : a.position_id # p.position_id

\* C30: in the stop-loss scan a position with the stop-loss switched on is
\* closed exactly when the compare value of its bar (Low for Buy, High for
\* Sell) is <= its stop for Buy and >= its stop for Sell, and it is closed at
\* its stored stop_loss with a reason containing "SL"; in the target scan a
\* closed position is closed at its stored target_price with a reason
\* containing "Target".
C30_ScansCloseAtStoredLevels ==
    [][/\ pc = "sl_scan" =>
            \A p \in SeqRange(pnl_manager.active_positions) :
                /\ LeftActive(p) <=> SLTriggers(p)
                /\ LeftActive(p) =>
                       \E c \in SeqRange(pnl_manager'.closed_positions) :
                           /\ c.position_id = p.position_id
                           /\ c.exit_price = p.stop_loss
                           /\ c.exit_timestamp = tick
                           /\ Contains(c.exit_reason, "SL")
       /\ pc = "tgt_scan" =>
            \A p \in SeqRange(pnl_manager.active_positions) :
                LeftActive(p) =>
                    \E c \in SeqRange(pnl_manager'.closed_positions) :
                        /\ c.position_id = p.position_id
                        /\ c.exit_price = p.target_price
                        /\ c.exit_timestamp = tick
                        /\ Contains(c.exit_reason, "Target")]_vars

\* a Sell position was stopped out by a High above its stop and a position
\* was closed by a target that its bar went through, each at the stored level
C30_Witness ==
    /\ \E c \in SeqRange(pnl_manager.closed_positions) :
          /\ Contains(c.exit_reason, "SL")
          /\ Upper(c.position_type) = "SELL"
          /\ c.OHLCV_data.High > c.stop_loss
          /\ c.exit_price = c.stop_loss
    /\ \E d \in SeqRange(pnl_manager.closed_positions) :
          /\ Contains(d.exit_reason, "Target")
          /\ d.exit_price = d.target_price
          /\ d.OHLCV_data.Low < d.target_price \/ d.OHLCV_data.High > d.target_price

----------------------------------------------------------------------------
(* create_position on its own: one call for every leg configuration, side, *)
(* entry price, and with the levels passed in by the caller or left to the *)
(* ledger (C31)                                                             *)

LevelPrices == {333, 10000}
LevelSides == {"Buy", "Sell"}
LevelStoplossTypes == {"Points", "Percentage"}
LevelStoplossValues == {0, 10, 1000}
LevelTargetValues == {0, 10}

LevelLeg(sl_toggle, sl_type, sl_value, tgt_toggle, tgt_value, side) ==
    [BaseLeg("leg_1") EXCEPT !.position = side,
                             !.stoploss_toggle = sl_toggle,
                             !.stoploss_type = sl_type,
                             !.stoploss_value = sl_value,
                             !.target_toggle = tgt_toggle,
                             !.target_value = tgt_value]

LevelInit ==
    /\ pc = "levels"
    /\ tick = 0
    /\ scenario = "levels"
    /\ bar = NoRow
    /\ feed = <<>>
    /\ last_row = NoRow
    /\ \E sl_toggle \in BOOLEAN, sl_type \in LevelStoplossTypes,
          sl_value \in LevelStoplossValues, tgt_toggle \in BOOLEAN,
          tgt_value \in LevelTargetValues, side \in LevelSides :
          all_order_dict = [l \in {"leg_1"} |->
                               LevelLeg(sl_toggle, sl_type, sl_value, tgt_toggle, tgt_value, side)]
    /\ main_orders = <<"leg_1">>
    /\ pnl_manager = PNLManager_init
    /\ entry_manager = EntryManager_init
    /\ TRADE_DICT = <<>>
    /\ day_breaker = FALSE
    /\ initial_entry = FALSE
    /\ stop_loss_triggers = FALSE
    /\ error = ""
    /\ day_file_written = FALSE
    /\ obs = obs_init
    /\ \E entry_price \in LevelPrices, given \in BOOLEAN :
          call = [op |-> "none", entry_price |-> entry_price, given |-> given,
                  returned |-> FALSE, raised |-> FALSE]

\* create_position for the leg; the caller either passes the levels of the
\* strategy's _calculate_sl_target, as process_day does, or passes none
LevelCreatePosition ==
    /\ pc = "levels"
    /\ LET leg == all_order_dict["leg_1"]
           levels == calculate_sl_target(call.entry_price, leg, leg.position)
           made == create_position(pnl_manager,
                     [leg_id |-> "leg_1",
                      unique_leg_id |-> "leg_1",
                      trading_symbol |-> leg.ticker,
                      entry_timestamp |-> tick,
                      entry_price |-> call.entry_price,
                      quantity |-> LotQty * LotSize,
                      position_type |-> leg.position,
                      leg_dict |-> leg,
                      sl_value |-> IF call.given THEN levels.stop_loss ELSE None,
                      target_price |-> IF call.given THEN levels.target_price ELSE None])
       IN  /\ pnl_manager' = made.pm
           /\ call' = [call EXCEPT !.op = "create_position",
                                   !.returned = ~made.raised,
                                   !.raised = made.raised]
    /\ pc' = "levels_done"
    /\ UNCHANGED <<tick, scenario, bar, feed, last_row, all_order_dict, main_orders,
                   entry_manager, TRADE_DICT, day_breaker, initial_entry,
                   stop_loss_triggers, error, day_file_written, obs>>

LevelNext == LevelCreatePosition

LevelSpec == LevelInit /\ [][LevelNext]_vars

----------------------------------------------------------------------------
(* Levels, marks, trailing, budgets and termination (C31 .. C40)           *)

\* the stop-loss level the leg configuration gives a position: entry + value
\* (Sell) or entry - value (Buy) for Points, entry * (1 + value) (Sell) or
\* entry * (1 - value) (Buy) for Percentage, rounded to paise
ExpectedStopLoss(entry_price, leg, side) ==
    IF leg.stoploss_type = "Points"
    THEN IF side = "Sell" THEN entry_price + leg.stoploss_value
         ELSE entry_price - leg.stoploss_value
    ELSE IF side = "Sell" THEN RoundDiv(entry_price * (100 + leg.stoploss_value), 100)
         ELSE RoundDiv(entry_price * (100 - leg.stoploss_value), 100)

\* the target mirrors the percentage stop-loss with the opposite sign
ExpectedTarget(entry_price, leg, side) ==
    IF side = "Sell" THEN RoundDiv(entry_price * (100 - leg.target_value), 100)
    ELSE RoundDiv(entry_price * (100 + leg.target_value), 100)

\* the levels of a created position follow the leg configuration, and a
\* stop-loss lies on the loss side of the entry price
LevelsAsConfigured(p) ==
    LET leg == p.leg_dict
        side == leg.position
    IN  /\ (leg.stoploss_toggle /\ leg.stoploss_value # 0) =>
              /\ p.stop_loss = ExpectedStopLoss(p.entry_price, leg, side)
              /\ IF side = "Sell" THEN p.stop_loss > p.entry_price
                 ELSE p.stop_loss < p.entry_price
        /\ (leg.target_toggle /\ leg.target_value # 0) =>
              p.target_price = ExpectedTarget(p.entry_price, leg, side)
        /\ ~leg.stoploss_toggle => p.stop_loss \in {0, None}
        /\ ~leg.target_toggle => p.target_price \in {0, None}

\* C31: create_position yields a position for every leg configuration, also
\* with the stop-loss or the target toggle off, and the position's stop-loss
\* and target are the levels the entry price, the side and the leg
\* configuration give, the stop-loss on the loss side of the entry price.
C31_CreatePositionSetsLevels ==
    call.op = "create_position" =>
        /\ call.returned
        /\ Len(pnl_manager.active_positions) = 1
        /\ LevelsAsConfigured(pnl_manager.active_positions[1])

\* what holds of create_position: a position that was created has the
\* configured levels
C31_CreatedPositionsHaveLevels ==
    \A p \in SeqRange(pnl_manager.active_positions) : LevelsAsConfigured(p)

\* create_position was left to compute the levels of a leg whose stop-loss
\* toggle is off, and raised
C31_Witness ==
    /\ call.op = "create_position"
    /\ ~call.given
    /\ ~all_order_dict["leg_1"].stoploss_toggle
    /\ call.raised
    /\ pnl_manager.active_positions = <<>>

\* the rows of the trade table made by the fill that opened the position
RowsOf(p, trade_dict) ==
    {i \in 1..Len(trade_dict) :
        /\ trade_dict[i].Leg_id = p.leg_id
        /\ trade_dict[i].Entry_timestamp = p.entry_timestamp
        /\ trade_dict[i].TradingSymbol = p.trading_symbol}

\* the mark-to-market step ran update_all_ltps and it returned
MarkedToMarket ==
    /\ pc = "update"
    /\ pc' = StepAfter("update")
    /\ ~(pnl_manager.active_positions = <<>> /\ pnl_manager.closed_positions = <<>>)

\* C32: after update_all_ltps at tick t every active position has
\* unrealized_pnl = (ltp - entry) * qty for Buy and (entry - ltp) * qty for
\* Sell, its row of the trade table has Timestamp = t, LTP = its current_ltp
\* and PnL = its unrealized_pnl, and the rows of other positions are as they
\* were, also when positions share a trading symbol.
C32_MarksMirroredPerPosition ==
    [][MarkedToMarket =>
         /\ \A p \in SeqRange(pnl_manager'.active_positions) :
               /\ p.unrealized_pnl =
                     IF Upper(p.position_type) = "BUY"
                     THEN (p.current_ltp - p.entry_price) * p.quantity
                     ELSE (p.entry_price - p.current_ltp) * p.quantity
               /\ RowsOf(p, TRADE_DICT') # {}
               /\ \A i \in RowsOf(p, TRADE_DICT') :
                     /\ TRADE_DICT'[i].Timestamp = tick
                     /\ TRADE_DICT'[i].LTP = p.current_ltp
                     /\ TRADE_DICT'[i].PnL = p.unrealized_pnl
         /\ Len(TRADE_DICT') = Len(TRADE_DICT)
         /\ \A i \in 1..Len(TRADE_DICT) :
               (\A p \in SeqRange(pnl_manager'.active_positions) :
                    i \notin RowsOf(p, TRADE_DICT')) =>
                   TRADE_DICT'[i] = TRADE_DICT[i]]_vars

\* two positions with one trading symbol are open and marked at a later tick
\* than their entry: the row of the first one still carries its entry tick
C32_Witness ==
    /\ pc = "sl_scan"
    /\ \E p, q \in SeqRange(pnl_manager.active_positions) :
          /\ p.position_id # q.position_id
          /\ p.trading_symbol = q.trading_symbol
          /\ p.entry_timestamp < tick
          /\ \E i \in RowsOf(p, TRADE_DICT) : TRADE_DICT[i].Timestamp < tick

----------------------------------------------------------------------------
(* The trailing stop-loss strategy on its own (Managers/exit_manager.py,   *)
(* TrailingStopLossExit): any sequence of direct calls of its              *)
(* check_exit_condition on positions of the ledger, of close_position and  *)
(* of ExitManager.remove_position_from_trailing.  In this specification    *)
(* obs holds the strategy object's trail_activated_positions.              *)

MaxTrailPositions == 3

TrailingReason == "Trailing_SL"

\* activation threshold and trail distance of the legs, in paise
TrailValue1 == 500
TrailValue2 == 300

\* the last traded prices the caller passes to the check
TrailPrices == {9500, 10000, 10500, 10800}

\* a leg with the trailing stop-loss keys of the leg file
TrailLeg(side, toggle) ==
    [trail_sl_toggle |-> toggle, trail_value1 |-> TrailValue1, trail_value2 |-> TrailValue2]
        @@ [BaseLeg("leg_1") EXCEPT !.position = side]

\* check_exit_condition with the trailing stop set from the current profit
\* at every check
TrailingStopLossExit_check_exit_condition_follows_price(trail_activated_positions, position, current_ltp) ==
    LET leg_dict == position.leg_dict
        position_id == position.position_id
        trail_value1 == leg_dict.trail_value1
        trail_value2 == leg_dict.trail_value2
        current_pnl == IF Upper(position.position_type) = "BUY"
                       THEN current_ltp - position.entry_price
                       ELSE position.entry_price - current_ltp
        tracked == IF position_id \in DOMAIN trail_activated_positions
                   THEN trail_activated_positions
                   ELSE (position_id :> [highest_profit |-> current_pnl, trail_sl |-> None,
                                         activated |-> FALSE]) @@ trail_activated_positions
        d0 == tracked[position_id]
        d1 == IF current_pnl > d0.highest_profit
              THEN [d0 EXCEPT !.highest_profit = current_pnl] ELSE d0
        d2 == IF ~d1.activated /\ current_pnl >= trail_value1
              THEN [d1 EXCEPT !.activated = TRUE, !.trail_sl = current_pnl - trail_value2]
              ELSE d1
        d3 == IF d2.activated THEN [d2 EXCEPT !.trail_sl = current_pnl - trail_value2] ELSE d2
    IN  IF ~leg_dict.trail_sl_toggle
        THEN [tracking |-> trail_activated_positions, exit |-> FALSE, reason |-> ""]
        ELSE IF position.entry_price = 0 \/ trail_value1 = 0 \/ trail_value2 = 0
        THEN [tracking |-> trail_activated_positions, exit |-> FALSE, reason |-> ""]
        ELSE IF d3.activated /\ current_pnl <= d3.trail_sl
        THEN [tracking |-> [tracked EXCEPT ![position_id] = d3],
              exit |-> TRUE, reason |-> TrailingReason]
        ELSE [tracking |-> [tracked EXCEPT ![position_id] = d3],
              exit |-> FALSE, reason |-> ""]

\* TrailingStopLossExit.check_exit_condition(position, current_timestamp,
\* current_ltp, spot_df): the tracking dict after the call and the answer
TrailingStopLossExit_check_exit_condition(trail_activated_positions, position, current_ltp) ==
    LET leg_dict == position.leg_dict
        position_id == position.position_id
        trail_value1 == leg_dict.trail_value1
        trail_value2 == leg_dict.trail_value2
        current_pnl == IF Upper(position.position_type) = "BUY"
                       THEN current_ltp - position.entry_price
                       ELSE position.entry_price - current_ltp
        tracked == IF position_id \in DOMAIN trail_activated_positions
                   THEN trail_activated_positions
                   ELSE (position_id :> [highest_profit |-> current_pnl, trail_sl |-> None,
                                         activated |-> FALSE]) @@ trail_activated_positions
        d0 == tracked[position_id]
        d1 == IF current_pnl > d0.highest_profit
              THEN [d0 EXCEPT !.highest_profit = current_pnl] ELSE d0
        d2 == IF ~d1.activated /\ current_pnl >= trail_value1
              THEN [d1 EXCEPT !.activated = TRUE, !.trail_sl = current_pnl - trail_value2]
              ELSE d1
        new_trail_sl == d2.highest_profit - trail_value2
        d3 == IF d2.activated /\ (d2.trail_sl = None \/ new_trail_sl > d2.trail_sl)
              THEN [d2 EXCEPT !.trail_sl = new_trail_sl] ELSE d2
    IN  IF ~leg_dict.trail_sl_toggle
        THEN [tracking |-> trail_activated_positions, exit |-> FALSE, reason |-> ""]
        ELSE IF position.entry_price = 0 \/ trail_value1 = 0 \/ trail_value2 = 0
        THEN [tracking |-> trail_activated_positions, exit |-> FALSE, reason |-> ""]
        ELSE IF d3.activated /\ current_pnl <= d3.trail_sl
        THEN [tracking |-> [tracked EXCEPT ![position_id] = d3],
              exit |-> TRUE, reason |-> TrailingReason]
        ELSE [tracking |-> [tracked EXCEPT ![position_id] = d3],
              exit |-> FALSE, reason |-> ""]

\* remove_position_tracking: del of the key when it is there
remove_position_tracking(trail_activated_positions, position_id) ==
    [id \in DOMAIN trail_activated_positions \ {position_id} |-> trail_activated_positions[id]]

\* ExitManager.remove_position_from_trailing
remove_position_from_trailing(trail_activated_positions, position_id) ==
    remove_position_tracking(trail_activated_positions, position_id)

TrailIds == {<<"leg_1", n>> : n \in 1..MaxTrailPositions}

TrailInit ==
    /\ pc = "trailing"
    /\ tick = 0
    /\ scenario = "trailing"
    /\ bar = NoRow
    /\ feed = <<>>
    /\ last_row = NoRow
    /\ all_order_dict = [l \in {"leg_1"} |-> BaseLeg("leg_1")]
    /\ main_orders = <<"leg_1">>
    /\ pnl_manager = PNLManager_init
    /\ entry_manager = EntryManager_init
    /\ TRADE_DICT = <<>>
    /\ day_breaker = FALSE
    /\ initial_entry = FALSE
    /\ stop_loss_triggers = FALSE
    /\ error = ""
    /\ day_file_written = FALSE
    /\ obs = <<>>
    /\ call = [op |-> "none", position_id |-> <<"", 0>>, current_ltp |-> 0,
               exit |-> FALSE, reason |-> ""]

TrailUnchanged ==
    UNCHANGED <<pc, tick, scenario, bar, feed, last_row, all_order_dict, main_orders,
                entry_manager, TRADE_DICT, day_breaker, initial_entry, stop_loss_triggers,
                error, day_file_written>>

\* the ways the n-th position is opened: every second one for a leg with
\* the trailing toggle off
TrailOpenings(n) ==
    IF n % 2 = 0 THEN {[side |-> "Sell", toggle |-> FALSE]}
    ELSE {[side |-> "Buy", toggle |-> TRUE], [side |-> "Sell", toggle |-> TRUE]}

\* the reason a position of a side is closed with
TrailExitReasons(side) ==
    IF side = "Buy" THEN {SLReason, ExitTimeReason} ELSE {TargetReason}

\* a position is opened for a leg with or without the trailing toggle
TrailCreatePosition ==
    /\ pnl_manager.position_counter < MaxTrailPositions
    /\ \E o \in TrailOpenings(pnl_manager.position_counter + 1) :
          LET side == o.side
              toggle == o.toggle IN
          LET made == create_position(pnl_manager,
                        [leg_id |-> "leg_1",
                         unique_leg_id |-> "leg_1",
                         trading_symbol |-> "NIFTY_CE",
                         entry_timestamp |-> tick,
                         entry_price |-> 10000,
                         quantity |-> LotQty * LotSize,
                         position_type |-> side,
                         leg_dict |-> TrailLeg(side, toggle),
                         sl_value |-> 0,
                         target_price |-> 0])
          IN  pnl_manager' = made.pm
    /\ call' = [op |-> "create_position",
                position_id |-> <<"leg_1", pnl_manager.position_counter + 1>>,
                current_ltp |-> 0, exit |-> FALSE, reason |-> ""]
    /\ UNCHANGED obs
    /\ TrailUnchanged

\* the strategy's check on the fields of an active position (passed as a
\* dict, which the strategy's position.get calls need) at some last traded
\* price
TrailCheck ==
    /\ \E i \in 1..Len(pnl_manager.active_positions), current_ltp \in TrailPrices :
          LET position == pnl_manager.active_positions[i]
              r == TrailingStopLossExit_check_exit_condition(obs, position, current_ltp)
          IN  /\ obs' = r.tracking
              /\ call' = [op |-> "check_exit_condition", position_id |-> position.position_id,
                          current_ltp |-> current_ltp, exit |-> r.exit, reason |-> r.reason]
    /\ UNCHANGED pnl_manager
    /\ TrailUnchanged

\* a position is closed the way the stop-loss scan, the target scan and the
\* forced close do it: by close_position of the ledger
TrailClosePosition ==
    /\ \E i \in 1..Len(pnl_manager.active_positions) :
          LET position == pnl_manager.active_positions[i]
          IN  \E exit_reason \in TrailExitReasons(position.position_type) :
                 LET r == close_position(pnl_manager, position.position_id, tick,
                                         position.current_ltp, exit_reason)
                 IN  /\ pnl_manager' = r.pm
                     /\ call' = [op |-> "close_position",
                                 position_id |-> position.position_id,
                                 current_ltp |-> position.current_ltp,
                                 exit |-> FALSE, reason |-> exit_reason]
    /\ UNCHANGED obs
    /\ TrailUnchanged

\* a caller of the evaluator drops the tracking of a position id
TrailRemovePosition ==
    /\ \E position_id \in TrailIds :
          /\ obs' = remove_position_from_trailing(obs, position_id)
          /\ call' = [op |-> "remove_position_from_trailing", position_id |-> position_id,
                      current_ltp |-> 0, exit |-> FALSE, reason |-> ""]
    /\ UNCHANGED pnl_manager
    /\ TrailUnchanged

TrailNext ==
    \/ TrailCreatePosition
    \/ TrailCheck
    \/ TrailClosePosition
    \/ TrailRemovePosition

TrailSpec == TrailInit /\ [][TrailNext]_vars

\* the position with the id, active or closed
TrailPosition(position_id) ==
    CHOOSE p \in SeqRange(pnl_manager.active_positions) \cup
                 SeqRange(pnl_manager.closed_positions) : p.position_id = position_id

\* the profit per unit of a position at a last traded price
TrailProfit(p, ltp) ==
    IF Upper(p.position_type) = "BUY" THEN ltp - p.entry_price ELSE p.entry_price - ltp

\* C33: a tracked position is activated only when its running highest profit
\* has reached the activation threshold; once activated, its trailing stop
\* equals the running highest profit minus the trail distance and never
\* decreases from one check to the next; a check reports an exit exactly when
\* the position is activated and the current profit is at or below the
\* trailing stop.
C33_TrailingStopFollowsHighestProfit ==
    /\ [](\A id \in DOMAIN obs :
            /\ obs[id].activated =>
                  /\ obs[id].highest_profit >= TrailPosition(id).leg_dict.trail_value1
                  /\ obs[id].trail_sl =
                        obs[id].highest_profit - TrailPosition(id).leg_dict.trail_value2
            /\ ~obs[id].activated => obs[id].trail_sl = None)
    /\ [](call.op = "check_exit_condition" =>
            LET p == TrailPosition(call.position_id)
            IN  IF p.leg_dict.trail_sl_toggle
                THEN /\ call.position_id \in DOMAIN obs
                     /\ call.exit <=>
                           /\ obs[call.position_id].activated
                           /\ TrailProfit(p, call.current_ltp) <= obs[call.position_id].trail_sl
                ELSE ~call.exit)
    /\ [][\A id \in DOMAIN obs \cap DOMAIN obs' :
            /\ obs[id].activated => obs'[id].activated
            /\ obs[id].activated => obs'[id].trail_sl >= obs[id].trail_sl
            /\ obs'[id].highest_profit >= obs[id].highest_profit]_vars

\* a check raised the trailing stop of an activated position from 2.00 to
\* 5.00, and a later check at a profit of exactly 5.00 said exit
C33_Witness ==
    /\ call.op = "check_exit_condition"
    /\ call.exit
    /\ call.reason = TrailingReason
    /\ obs[call.position_id].highest_profit = 800
    /\ obs[call.position_id].trail_sl = 500
    /\ TrailProfit(TrailPosition(call.position_id), call.current_ltp) = 500

\* C34: the exit evaluator holds no trailing entry for a position that has
\* been closed, whatever closed it (stop-loss, target or forced close).
C34_NoTrailingEntryAfterClose ==
    \A c \in SeqRange(pnl_manager.closed_positions) : c.position_id \notin DOMAIN obs

\* a tracked, activated position has just been closed and is still tracked
C34_Witness ==
    /\ call.op = "close_position"
    /\ \E c \in SeqRange(pnl_manager.closed_positions) :
          /\ c.position_id = call.position_id
          /\ c.position_id \in DOMAIN obs
          /\ obs[c.position_id].activated

----------------------------------------------------------------------------
(* ReentryManager on its own (Managers/reentry_manager.py): any sequence   *)
(* of register_exit and check_reentries calls.  In this specification obs  *)
(* holds the manager's tracker.reentry_counts and pending_reentries.       *)

MaxReentryExits == 3

ReentryLegIds == {"leg_1", "leg_2"}

\* leg_1 re-enters at once after a stop-loss and on momentum after a target,
\* leg_2 re-enters after a stop-loss only; leg_id is the key _get_order adds
ReentryLeg(l) ==
    [leg_id |-> l] @@
    (IF l = "leg_1"
     THEN [BaseLeg(l) EXCEPT !.rentry_sl_toggle = TRUE,
                             !.rentry_type_sl = "RE ASAP",
                             !.total_sl_rentry = MaxBudget,
                             !.rentry_tgt_toggle = TRUE,
                             !.rentry_type_tgt = "RE MOMENTUM",
                             !.total_tgt_rentry = MaxBudget,
                             !.sm_percentage_direction = "ABOVE",
                             !.sm_percent_value = 10]
     ELSE [BaseLeg(l) EXCEPT !.rentry_sl_toggle = TRUE,
                             !.rentry_type_sl = "RE ASAP",
                             !.total_sl_rentry = MaxBudget])

ReentryExitTypes == {"SL", "TARGET", "TIME"}

\* the spot Close at the timestamp of a check_reentries call
ReentrySpots == {10000, 11000}

ReentryManager_init == [reentry_counts |-> <<>>, pending_reentries |-> <<>>, exits |-> 0]

\* ReentryTracker.can_reenter: the counts after the call and the answer
can_reenter(reentry_counts, leg_id, exit_type, leg_dict) ==
    LET counts == IF leg_id \in DOMAIN reentry_counts THEN reentry_counts
                  ELSE (leg_id :> [sl |-> 0, tgt |-> 0]) @@ reentry_counts
    IN  [reentry_counts |-> counts,
         allowed |-> IF exit_type = "SL" THEN counts[leg_id].sl < leg_dict.total_sl_rentry
                     ELSE IF exit_type = "TARGET"
                          THEN counts[leg_id].tgt < leg_dict.total_tgt_rentry
                          ELSE FALSE]

\* ReentryTracker.increment_reentry
increment_reentry(reentry_counts, leg_id, exit_type) ==
    LET counts == IF leg_id \in DOMAIN reentry_counts THEN reentry_counts
                  ELSE (leg_id :> [sl |-> 0, tgt |-> 0]) @@ reentry_counts
    IN  IF exit_type = "SL" THEN [counts EXCEPT ![leg_id].sl = @ + 1]
        ELSE IF exit_type = "TARGET" THEN [counts EXCEPT ![leg_id].tgt = @ + 1]
        ELSE counts

\* ReentryManager.register_exit
register_exit(rm, leg_dict, exit_info) ==
    LET exit_type == exit_info.exit_type
        leg_id == leg_dict.leg_id
        reentry_enabled == IF exit_type = "SL" THEN leg_dict.rentry_sl_toggle
                           ELSE leg_dict.rentry_tgt_toggle
        reentry_type == IF exit_type = "SL" THEN leg_dict.rentry_type_sl
                        ELSE leg_dict.rentry_type_tgt
        can == can_reenter(rm.reentry_counts, leg_id, exit_type, leg_dict)
    IN  IF exit_type \notin {"SL", "TARGET"} THEN rm
        ELSE IF ~reentry_enabled THEN rm
        ELSE IF ~can.allowed THEN [rm EXCEPT !.reentry_counts = can.reentry_counts]
        ELSE [rm EXCEPT !.reentry_counts = can.reentry_counts,
                        !.pending_reentries =
                            Append(@, [leg_dict |-> leg_dict, exit_info |-> exit_info,
                                       reentry_type |-> reentry_type,
                                       registered_at |-> exit_info.exit_timestamp])]

\* _map_reentry_type: the strategy key of a re-entry type of the leg file
map_reentry_type(reentry_type) ==
    CASE reentry_type \in {"SIMPLE", "IMMEDIATE"} -> "SIMPLE"
      [] reentry_type \in {"RE MOMENTUM", "MOMENTUM"} -> "MOMENTUM"
      [] reentry_type \in {"TIME_DELAY", "DELAY"} -> "TIME_DELAY"
      [] reentry_type = "CONDITIONAL" -> "CONDITIONAL"
      [] OTHER -> "SIMPLE"

SimpleReentry_check_reentry_condition(leg_dict, exit_info) ==
    IF exit_info.exit_type = "SL" THEN leg_dict.rentry_sl_toggle
    ELSE IF exit_info.exit_type = "TARGET" THEN leg_dict.rentry_tgt_toggle
    ELSE FALSE

\* MomentumReentry: the spot has moved from the exit spot by the percentage
MomentumReentry_check_reentry_condition(leg_dict, exit_info, current_spot) ==
    LET exit_type == exit_info.exit_type
        enabled == IF exit_type = "SL"
                   THEN leg_dict.rentry_sl_toggle /\ leg_dict.rentry_type_sl = "RE MOMENTUM"
                   ELSE IF exit_type = "TARGET"
                        THEN leg_dict.rentry_tgt_toggle /\ leg_dict.rentry_type_tgt = "RE MOMENTUM"
                        ELSE FALSE
        exit_spot == exit_info.exit_spot
    IN  IF ~enabled THEN FALSE
        ELSE IF exit_spot = 0 \/ leg_dict.sm_percent_value = 0 THEN FALSE
        ELSE IF leg_dict.sm_percentage_direction = "ABOVE"
             THEN (current_spot - exit_spot) * 100 >= leg_dict.sm_percent_value * exit_spot
        ELSE IF leg_dict.sm_percentage_direction = "BELOW"
             THEN (current_spot - exit_spot) * 100 <= -(leg_dict.sm_percent_value * exit_spot)
        ELSE FALSE

\* the loop of check_reentries over the pending re-entries
RECURSIVE check_reentries_loop(_, _, _, _)
check_reentries_loop(st, pending_reentries, k, current_spot) ==
    IF k > Len(pending_reentries) THEN st
    ELSE LET pending == pending_reentries[k]
             leg_dict == pending.leg_dict
             exit_info == pending.exit_info
             strategy_key == map_reentry_type(pending.reentry_type)
             should_reenter ==
                 IF strategy_key = "SIMPLE"
                 THEN SimpleReentry_check_reentry_condition(leg_dict, exit_info)
                 ELSE IF strategy_key = "MOMENTUM"
                      THEN MomentumReentry_check_reentry_condition(leg_dict, exit_info,
                                                                   current_spot)
                      ELSE FALSE
         IN  check_reentries_loop(
                 IF should_reenter
                 THEN [st EXCEPT !.reentry_counts =
                                     increment_reentry(@, leg_dict.leg_id, exit_info.exit_type),
                                 !.reentries_to_execute = Append(@, leg_dict)]
                 ELSE [st EXCEPT !.remaining_pending = Append(@, pending)],
                 pending_reentries, k + 1, current_spot)

\* ReentryManager.check_reentries: the manager after the call and the list
\* of leg dicts that re-enter
check_reentries(rm, current_spot) ==
    LET st == check_reentries_loop([reentry_counts |-> rm.reentry_counts,
                                    reentries_to_execute |-> <<>>,
                                    remaining_pending |-> <<>>],
                                   rm.pending_reentries, 1, current_spot)
    IN  [rm |-> [rm EXCEPT !.reentry_counts = st.reentry_counts,
                           !.pending_reentries = st.remaining_pending],
         reentries_to_execute |-> st.reentries_to_execute]

ReentryInit ==
    /\ pc = "reentries"
    /\ tick = 0
    /\ scenario = "reentries"
    /\ bar = NoRow
    /\ feed = <<>>
    /\ last_row = NoRow
    /\ all_order_dict = [l \in ReentryLegIds |-> ReentryLeg(l)]
    /\ main_orders = <<"leg_1", "leg_2">>
    /\ pnl_manager = PNLManager_init
    /\ entry_manager = EntryManager_init
    /\ TRADE_DICT = <<>>
    /\ day_breaker = FALSE
    /\ initial_entry = FALSE
    /\ stop_loss_triggers = FALSE
    /\ error = ""
    /\ day_file_written = FALSE
    /\ obs = ReentryManager_init
    /\ call = [op |-> "none", leg_id |-> "", exit_type |-> "", released |-> <<>>]

ReentryUnchanged ==
    UNCHANGED <<pc, scenario, bar, feed, last_row, all_order_dict, main_orders, pnl_manager,
                entry_manager, TRADE_DICT, day_breaker, initial_entry, stop_loss_triggers,
                error, day_file_written>>

\* a position of a leg has exited and the caller registers the exit
ReentryRegisterExit ==
    /\ obs.exits < MaxReentryExits
    /\ \E l \in ReentryLegIds, exit_type \in ReentryExitTypes :
          LET exit_info == [exit_type |-> exit_type, exit_timestamp |-> tick,
                            exit_spot |-> 10000]
          IN  /\ obs' = [register_exit(obs, all_order_dict[l], exit_info)
                            EXCEPT !.exits = @ + 1]
              /\ call' = [op |-> "register_exit", leg_id |-> l, exit_type |-> exit_type,
                          released |-> <<>>]
    /\ UNCHANGED tick
    /\ ReentryUnchanged

\* check_reentries at the next timestamp
ReentryCheckReentries ==
    /\ tick < MaxReentryExits
    /\ tick' = tick + 1
    /\ \E current_spot \in ReentrySpots :
          LET r == check_reentries(obs, current_spot)
          IN  /\ obs' = r.rm
              /\ call' = [op |-> "check_reentries", leg_id |-> "", exit_type |-> "",
                          released |-> [i \in 1..Len(r.reentries_to_execute) |->
                                           r.reentries_to_execute[i].leg_id]]
    /\ ReentryUnchanged

ReentryNext == ReentryRegisterExit \/ ReentryCheckReentries

ReentrySpec == ReentryInit /\ [][ReentryNext]_vars

\* C35: the number of re-entries check_reentries has released for a leg and
\* an exit type (the tracker's count) never exceeds the leg's
\* total_sl_rentry / total_tgt_rentry.
C35_ReleasedWithinBudget ==
    \A l \in DOMAIN obs.reentry_counts :
        /\ obs.reentry_counts[l].sl <= all_order_dict[l].total_sl_rentry
        /\ obs.reentry_counts[l].tgt <= all_order_dict[l].total_tgt_rentry

\* check_reentries has released two re-entries of one leg whose exits were
\* both registered before the call
C35_Witness ==
    /\ call.op = "check_reentries"
    /\ \E i, j \in 1..Len(call.released) : i # j /\ call.released[i] = call.released[j]
    /\ \E l \in DOMAIN obs.reentry_counts : obs.reentry_counts[l].sl >= 2

\* re-entry and hop submissions the day loop has made for positions of a leg
Triggered(o, l) == o.sl_reentries[l] + o.tgt_reentries[l] + o.hops[l]

\* the positions of a leg that a scan closed at the current tick
ClosedNow(l) ==
    {k \in 1..Len(pnl_manager.closed_positions) :
        /\ pnl_manager.closed_positions[k].leg_id = l
        /\ pnl_manager.closed_positions[k].exit_timestamp = tick
        /\ \/ Contains(pnl_manager.closed_positions[k].exit_reason, "SL")
           \/ Contains(pnl_manager.closed_positions[k].exit_reason, "Target")}

\* C36: every position a scan evaluates was created at an earlier tick and
\* carries the bar of a mark-to-market update, so no position is closed by
\* the stop-loss or the target scan of the tick it was created at; re-entry
\* and hop submissions are made in the re-entry step only, and for a leg no
\* more of them than positions of the leg were closed at that very tick.
C36_OneEvaluationAndOneSubmissionPerTick ==
    /\ [](pc \in {"sl_scan", "tgt_scan"} =>
            \A p \in SeqRange(pnl_manager.active_positions) :
                p.entry_timestamp < tick /\ p.OHLCV_data.present)
    /\ [](\A c \in SeqRange(pnl_manager.closed_positions) :
            (Contains(c.exit_reason, "SL") \/ Contains(c.exit_reason, "Target")) =>
                c.exit_timestamp > c.entry_timestamp)
    /\ [][\A l \in AllLegs :
            /\ Triggered(obs', l) - Triggered(obs, l) <= Cardinality(ClosedNow(l))
            /\ Triggered(obs', l) # Triggered(obs, l) => pc = "reentry"]_vars

\* a Sell position was stopped out and re-entered at one tick, and the bar of
\* that tick has a High at or above the stop of the new position, which is
\* still open when the tick's steps are over
C36_Witness ==
    /\ pc = "day_end"
    /\ \E p \in SeqRange(pnl_manager.active_positions) :
          /\ p.entry_timestamp = tick
          /\ Upper(p.position_type) = "SELL"
          /\ p.leg_dict.stoploss_toggle
          /\ bar.present
          /\ bar.High >= p.stop_loss
          /\ \E c \in SeqRange(pnl_manager.closed_positions) :
                /\ c.leg_id = p.leg_id
                /\ c.exit_timestamp = tick
                /\ Contains(c.exit_reason, "SL")

\* the hop on stop-loss is due for a closed position: its own exit was a
\* stop-loss, its leg names a leg-on-stoploss with a positive hop count, and
\* no re-entry rule takes the exit
SLHopDue(p) ==
    /\ Contains(p.exit_reason, "SL")
    /\ p.leg_dict.leg_hopping_count_sl > 0
    /\ p.leg_dict.leg_tobe_executed_on_sl # ""
    /\ ~ReentryRuleApplies(p)

\* the step has used up a hop on stop-loss of the leg
SLHopTaken(l) ==
    all_order_dict'[l].leg_hopping_count_sl < all_order_dict[l].leg_hopping_count_sl

\* C37: the re-entry step takes the hop on stop-loss of a leg exactly when a
\* position of that leg closed at this tick has the hop due, i.e. was itself
\* closed by its stop-loss; a position closed by its target never takes it,
\* whatever happened to other positions in the tick.
C37_SLHopOnlyForOwnStopLoss ==
    [][pc = "reentry" =>
          \A l \in DOMAIN all_order_dict :
              SLHopTaken(l) <=>
                  \E p \in SeqRange(pnl_manager.closed_positions) :
                      p.leg_id = l /\ p.exit_timestamp = tick /\ SLHopDue(p)]_vars

\* a position closed by its target has taken its leg's hop on stop-loss,
\* in a tick in which the last position scanned was stopped out
C37_Witness ==
    /\ pc = "initial_entry"
    /\ stop_loss_triggers
    /\ \E p \in SeqRange(pnl_manager.closed_positions) :
          /\ p.exit_timestamp = tick
          /\ Contains(p.exit_reason, "Target")
          /\ p.leg_dict.leg_hopping_count_sl > 0
          /\ all_order_dict[p.leg_id].leg_hopping_count_sl < p.leg_dict.leg_hopping_count_sl
          /\ obs.hops[p.leg_id] > 0

\* the positions of the ledger, active ones first
LedgerPositions == pnl_manager.active_positions \o pnl_manager.closed_positions

\* C38: between ledger operations total_realized_pnl is the sum of
\* realized_pnl over the closed positions, total_unrealized_pnl is the sum of
\* unrealized_pnl over the active positions, no position is both active and
\* closed, every closed position has unrealized_pnl = 0, and the position
\* ids are pairwise distinct.
C38_LedgerTotalsAndIds ==
    /\ pnl_manager.total_realized_pnl = SumRealized(pnl_manager.closed_positions)
    /\ pnl_manager.total_unrealized_pnl = SumUnrealized(pnl_manager.active_positions)
    /\ \A a \in SeqRange(pnl_manager.active_positions) :
          \A c \in SeqRange(pnl_manager.closed_positions) : a.position_id # c.position_id
    /\ \A c \in SeqRange(pnl_manager.closed_positions) : c.unrealized_pnl = 0
    /\ \A i, j \in 1..Len(LedgerPositions) :
          i # j => LedgerPositions[i].position_id # LedgerPositions[j].position_id

\* a closed position with a realized result next to an active position with
\* an unrealized one
C38_Witness ==
    /\ \E c \in SeqRange(pnl_manager.closed_positions) : c.realized_pnl # 0
    /\ \E a \in SeqRange(pnl_manager.active_positions) : a.unrealized_pnl # 0
    /\ pnl_manager.total_realized_pnl # 0
    /\ pnl_manager.total_unrealized_pnl # 0

----------------------------------------------------------------------------
(* Termination of a day (C39)                                              *)

\* the interpreter goes on to the next statement: unless the loop over the
\* days is over (its last day has returned, or an exception has ended the
\* run) control moves to another position
BatchAdvance ==
    /\ pc # "aborted"
    /\ ~(pc = "returned" /\ call.day = MaxDays)
    /\ \E p \in {"next", "update", "sl_scan", "tgt_scan", "reentry", "initial_entry",
                 "pending", "snapshot", "day_end", "returned", "raised", "aborted"} \ {pc} :
            pc' = p

\* the batch run to its end by a single thread, which is never held up
BatchFairSpec == BatchSpec /\ WF_pc(BatchAdvance)

\* every step of the batch moves control, so that the steps WF_pc asks for
\* are the steps of BatchNext
BatchStepsMoveControl == [][pc' # pc]_vars

DayRunning == call.op = "process_day" /\ pc \notin {"returned", "raised", "aborted"}

DayOver == call.op = "process_day" /\ pc \in {"returned", "raised", "aborted"}

\* the half of C39 that holds: every started day comes to an end
C39_DayTerminates == DayRunning ~> DayOver

\* C39: for every finite sequence of day ticks process_day terminates, and
\* once it has terminated no position is left active, also when the ticks
\* end before the exit time is reached.
C39_TerminatesWithNoActivePosition ==
    /\ DayRunning ~> DayOver
    /\ [](DayOver => pnl_manager.active_positions = <<>>)

\* the spot frame stopped one minute after the entry time: process_day has
\* returned without an error and the positions opened at the entry time
\* are still active
C39_Witness ==
    /\ call.op = "process_day"
    /\ pc = "returned"
    /\ error = ""
    /\ tick = EntryTime + 1
    /\ tick < ExitTime
    /\ ~day_breaker
    /\ pnl_manager.active_positions # <<>>
    /\ pnl_manager.closed_positions = <<>>

----------------------------------------------------------------------------
(* Re-entry budget and re-entry orders (C40)                               *)

\* the re-entry step took a unit of the leg's budget, in the registry
BudgetTaken(l) ==
    /\ l \in DOMAIN all_order_dict
    /\ \/ all_order_dict'[l].total_sl_rentry < all_order_dict[l].total_sl_rentry
       \/ all_order_dict'[l].total_tgt_rentry < all_order_dict[l].total_tgt_rentry

\* an order of the leg, created at this timestamp, is pending after the step
NewPendingOrder(l) ==
    \E i \in 1..Len(entry_manager'.pending_orders) :
        /\ entry_manager'.pending_orders[i].order_id = <<l, tick>>
        /\ entry_manager'.pending_orders[i].timestamp_created = tick

\* C40: a unit of re-entry budget is used only when a re-entry order is
\* created: whenever the re-entry step of a tick has decremented a leg's
\* total_sl_rentry or total_tgt_rentry, a new pending order of that leg
\* exists after the step.
C40_BudgetUsedOnlyWithOrder ==
    [][pc = "reentry" =>
          \A l \in DOMAIN all_order_dict : BudgetTaken(l) => NewPendingOrder(l)]_vars

\* the re-entry step of a tick without a row for the contract is over: the
\* position stopped out at this timestamp has used the leg's one unit of
\* stop-loss re-entry budget, and no order of the leg is pending
C40_Witness ==
    /\ pc = "initial_entry"
    /\ ~bar.present
    /\ \E l \in DOMAIN all_order_dict :
          /\ RegistryOf(scenario)[l].rentry_sl_toggle
          /\ all_order_dict[l].total_sl_rentry < RegistryOf(scenario)[l].total_sl_rentry
          /\ \E k \in 1..Len(pnl_manager.closed_positions) :
                /\ pnl_manager.closed_positions[k].leg_id = l
                /\ pnl_manager.closed_positions[k].exit_timestamp = tick
                /\ pnl_manager.closed_positions[k].exit_reason = SLReason
          /\ \A i \in 1..Len(entry_manager.pending_orders) :
                entry_manager.pending_orders[i].leg_id # l

=============================================================================
